---- MODULE Spec2Model ----
(***************************************************************************)
(* Forbidden-interval matcher of polysat (forbidden_intervals.cpp/.h).     *)
(*                                                                         *)
(* One call of forbidden_intervals::get_interval(c, v, fi) is one step of  *)
(* the machine.  The target variable is v; the constraint may mention one  *)
(* other variable w, so a pdd in the other variables is a linear           *)
(* expression c0 + c1*w with coefficients modulo 2^N, and a polynomial in  *)
(* v is the triple of pdd coefficients of v^0, v^1 and v^2.                *)
(***************************************************************************)
EXTENDS Integers, Sequences, FiniteSets, TLC

VARIABLES
    N,      \* s.size(v): bit-width of the target variable
    c,      \* the signed constraint handed to get_interval
    asg,    \* assignment of the other variable w: <<>> (none) or <<value>>
    fi,     \* the fi_record the caller passes by reference
    ret,    \* value returned by the last get_interval
    dec,    \* the two linear_decompose tuples of the last get_interval
    pc,     \* "ready": record reset, call pending; "done": call returned
    tin,    \* input triple <<coeff, lo_val, hi_val>> of the normalization
    tout,   \* the triple after tcnt applications of the normalization
    tcnt,   \* number of applications so far
    last_function,  \* the static _last_function: last pattern entered
    asserted,       \* every SASSERT the last get_interval reached held
    unsat_core,     \* core::unsat_core(): the signed constraints, by constraint id
    m_propagated,   \* saturation::m_propagated
    propagated,     \* the literals the core has propagated, with their premises
    clauses,        \* the clauses the core has been given
    reported,       \* what the core answered to each request of the last call
    sat_ret,        \* value returned by the last saturation::propagate(v, id)
    sat_id,         \* the constraint id of the last saturation::propagate(v, id)
    calls,          \* number of calls of the saturation engine so far
    assigned        \* core::assigned_constraints(): constraint ids, in queue order

satvars == <<unsat_core, m_propagated, propagated, clauses, reported, sat_ret, sat_id, calls,
             assigned>>

vars == <<N, c, asg, fi, ret, dec, pc, tin, tout, tcnt, last_function, asserted, satvars>>

-----------------------------------------------------------------------------
(* Bounds of the explored inputs. *)

MaxN == 3       \* bit-widths 1..MaxN
MaxA == 3       \* coefficients of v are drawn from -MaxA..MaxA modulo 2^N
MaxB == 2       \* offsets are drawn from -MaxB..MaxB modulo 2^N
MaxWVal == 1    \* the other variable is unassigned or has a value 1..MaxWVal
WideN == 5      \* a bit-width at which the overflow path gives up (A >= 4, B >= 4)
MaxWide == 8    \* the constant operands 0..MaxWide of the overflow calls at WideN
SatMaxN == 2    \* bit-widths 1..SatMaxN of the saturation calls
MaxCalls == 2   \* the saturation engine is called at most MaxCalls times
UgtMaxN == 3    \* bit-widths 1..UgtMaxN of the try_ugt_y and try_ugt_z calls
OvflMaxN == 5   \* bit-widths 1..OvflMaxN of the overflow calls with every operand value

-----------------------------------------------------------------------------
(* Modular values and pdds over the other variable. *)

two_to_N == 2 ^ N

max_value == two_to_N - 1

mod(x, m) == x % m

mk_val(k) == [c0 |-> mod(k, two_to_N), c1 |-> 0]

zero == mk_val(0)

is_val(p) == p.c1 = 0

val(p) == p.c0

is_zero(p) == is_val(p) /\ val(p) = 0

is_max(p) == is_val(p) /\ val(p) = max_value

pdd_add(p, q) == [c0 |-> mod(p.c0 + q.c0, two_to_N), c1 |-> mod(p.c1 + q.c1, two_to_N)]

pdd_neg(p) == [c0 |-> mod(0 - p.c0, two_to_N), c1 |-> mod(0 - p.c1, two_to_N)]

pdd_sub(p, q) == pdd_add(p, pdd_neg(q))

pdd_scale(k, p) == [c0 |-> mod(k * p.c0, two_to_N), c1 |-> mod(k * p.c1, two_to_N)]

\* value of the pdd p when the other variable has value w
eval_pdd(p, w) == mod(p.c0 + p.c1 * w, two_to_N)

\* core::subst: replace the assigned variables by their values
subst(p) == IF asg = <<>> THEN p ELSE mk_val(eval_pdd(p, asg[1]))

\* polynomial in v with pdd coefficients k0 + k1*v + k2*v^2
degree(p) == IF p.k2 # zero THEN 2 ELSE IF p.k1 # zero THEN 1 ELSE 0

\* value of the polynomial p at v = x, w = y
eval_poly(p, x, y) ==
    mod(eval_pdd(p.k0, y) + eval_pdd(p.k1, y) * x + eval_pdd(p.k2, y) * x * x, two_to_N)

\* rational::mult_inverse modulo 2^N of an odd a
mult_inverse(a) == CHOOSE x \in 0..max_value : mod(a * x, two_to_N) = 1

-----------------------------------------------------------------------------
(* Constraints. *)

\* constraints::ule(p, q) over pdds of the other variables
ule(p, q) == [kind |-> "ule", positive |-> TRUE, lhs |-> p, rhs |-> q]

\* core::eq(p) is p <= 0
eq(p) == ule(p, zero)

\* core::eq(p, q) is p - q <= 0
eq2(p, q) == eq(pdd_sub(p, q))

\* signed_constraint::operator~
neg(sc) == [sc EXCEPT !.positive = ~sc.positive]

\* truth of a side condition when the other variable has value y
holds_side(sc, y) == (eval_pdd(sc.lhs, y) <= eval_pdd(sc.rhs, y)) <=> sc.positive

\* truth of the signed constraint sc at v = x, w = y
holds(sc, x, y) ==
    LET l == eval_poly(sc.lhs, x, y)
        r == eval_poly(sc.rhs, x, y)
    IN  CASE sc.kind = "ule"       -> ((l <= r) <=> sc.positive)
          [] sc.kind = "umul_ovfl" -> ((l * r > max_value) <=> sc.positive)
          [] OTHER                 -> sc.positive

-----------------------------------------------------------------------------
(* eval_interval *)

full == [tag |-> "full", lo |-> zero, lo_val |-> 0, hi |-> zero, hi_val |-> 0]

empty == [tag |-> "empty", lo |-> zero, lo_val |-> 0, hi |-> zero, hi_val |-> 0]

proper(lo, lo_val, hi, hi_val) ==
    [tag |-> "proper", lo |-> lo, lo_val |-> lo_val, hi |-> hi, hi_val |-> hi_val]

\* membership of the value x in the half-open, wrapping range [l, h)
in_range(x, l, h) == IF l <= h THEN l <= x /\ x < h ELSE x >= l \/ x < h

-----------------------------------------------------------------------------
(* fi_record *)

fi_record == [interval |-> full, side_cond |-> <<>>, src |-> <<>>, deps |-> <<>>,
              coeff |-> 0, bit_width |-> 0]

reset_keeps_src(r) == [r EXCEPT !.interval = full, !.side_cond = <<>>,
                               !.coeff = 0, !.deps = <<>>, !.bit_width = 0]

reset(r) == [r EXCEPT !.interval = full, !.side_cond = <<>>, !.src = <<>>,
                      !.coeff = 0, !.deps = <<>>, !.bit_width = 0]

\* no decomposition was made
NoDec == <<>>

\* backtrack::~backtrack
backtrack_inverted(released, side_cond, sz) ==
    IF released THEN SubSeq(side_cond, 1, sz) ELSE side_cond

backtrack_keeps(released, side_cond, sz) == side_cond

backtrack(released, side_cond, sz) ==
    IF released THEN side_cond ELSE SubSeq(side_cond, 1, sz)

-----------------------------------------------------------------------------
(* forbidden_intervals *)

push_eq_inverted(is_zero_, p, side_cond) ==
    IF is_val(p) THEN side_cond
    ELSE IF is_zero_ THEN Append(side_cond, neg(eq(p)))
    ELSE Append(side_cond, eq(p))

push_eq(is_zero_, p, side_cond) ==
    IF is_val(p) THEN side_cond
    ELSE IF is_zero_ THEN Append(side_cond, eq(p))
    ELSE Append(side_cond, neg(eq(p)))

linear_decompose_eager_side_cond(p, out_side_cond) ==
    LET finish(q, e, r, b) ==
            IF ~is_val(q) /\ ~is_val(r) THEN
                [ok |-> FALSE, a |-> 0, e |-> q, b |-> e,
                 side_cond |-> Append(out_side_cond, eq2(q, r))]
            ELSE
                [ok |-> is_val(b), a |-> val(r), e |-> e, b |-> b,
                 side_cond |-> IF is_val(q) THEN out_side_cond
                               ELSE Append(out_side_cond, eq2(q, r))]
        factor(deg, q, e) ==
            IF deg > 1 THEN
                [ok |-> FALSE, a |-> 0, e |-> q, b |-> e, side_cond |-> out_side_cond]
            ELSE finish(q, e, subst(q), subst(e))
        split(deg) ==
            factor(deg, IF deg = 1 THEN p.k1 ELSE zero, IF deg <= 1 THEN p.k0 ELSE zero)
    IN  split(degree(p))

linear_decompose_unsubstituted(p, out_side_cond) ==
    LET finish(q, e, r, b) ==
            IF ~is_val(q) /\ ~is_val(r) THEN
                [ok |-> FALSE, a |-> 0, e |-> q, b |-> e, side_cond |-> out_side_cond]
            ELSE
                [ok |-> is_val(b), a |-> val(q), e |-> e, b |-> b,
                 side_cond |-> IF is_val(q) THEN out_side_cond
                               ELSE Append(out_side_cond, eq2(q, r))]
        factor(deg, q, e) ==
            IF deg > 1 THEN
                [ok |-> FALSE, a |-> 0, e |-> q, b |-> e, side_cond |-> out_side_cond]
            ELSE finish(q, e, subst(q), subst(e))
        split(deg) ==
            factor(deg, IF deg = 1 THEN p.k1 ELSE zero, IF deg <= 1 THEN p.k0 ELSE zero)
    IN  split(degree(p))

\* the tuple (ok, a, e, b) and the side-condition list after the call
linear_decompose(p, out_side_cond) ==
    LET finish(q, e, r, b) ==
            IF ~is_val(q) /\ ~is_val(r) THEN
                [ok |-> FALSE, a |-> 0, e |-> q, b |-> e, side_cond |-> out_side_cond]
            ELSE
                [ok |-> is_val(b), a |-> val(r), e |-> e, b |-> b,
                 side_cond |-> IF is_val(q) THEN out_side_cond
                               ELSE Append(out_side_cond, eq2(q, r))]
        factor(deg, q, e) ==
            IF deg > 1 THEN
                [ok |-> FALSE, a |-> 0, e |-> q, b |-> e, side_cond |-> out_side_cond]
            ELSE finish(q, e, subst(q), subst(e))
        split(deg) ==
            factor(deg, IF deg = 1 THEN p.k1 ELSE zero, IF deg <= 1 THEN p.k0 ELSE zero)
    IN  split(degree(p))

negate_interval_unshifted(t) ==
    [coeff |-> two_to_N - t.coeff,
     lo |-> pdd_neg(t.hi), lo_val |-> mod(0 - t.hi_val, two_to_N),
     hi |-> pdd_neg(t.lo), hi_val |-> mod(0 - t.lo_val, two_to_N)]

negate_interval_sequential(t) ==
    [coeff |-> two_to_N - t.coeff,
     lo |-> pdd_sub(mk_val(1), t.hi), lo_val |-> mod(1 - t.hi_val, two_to_N),
     hi |-> pdd_sub(mk_val(1), pdd_sub(mk_val(1), t.hi)),
     hi_val |-> mod(1 - mod(1 - t.hi_val, two_to_N), two_to_N)]

\* the transform  y \in [l;u[  <=>  -y \in [1-u;1-l[  of to_interval
negate_interval(t) ==
    [coeff |-> two_to_N - t.coeff,
     lo |-> pdd_sub(mk_val(1), t.hi), lo_val |-> mod(1 - t.hi_val, two_to_N),
     hi |-> pdd_sub(mk_val(1), t.lo), hi_val |-> mod(1 - t.lo_val, two_to_N)]

to_interval_trivial_normalized(sc, is_trivial, coeff, lo_val, lo, hi_val, hi) ==
    LET tagged(t) ==
            [interval |-> IF sc.positive THEN proper(t.lo, t.lo_val, t.hi, t.hi_val)
                          ELSE proper(t.hi, t.hi_val, t.lo, t.lo_val),
             coeff |-> t.coeff]
        normalized(t) == tagged(IF 2 * t.coeff > two_to_N THEN negate_interval(t) ELSE t)
    IN  IF is_trivial THEN
            [interval |-> IF sc.positive THEN empty ELSE full,
             coeff |-> IF 2 * coeff > two_to_N THEN two_to_N - coeff ELSE coeff]
        ELSE normalized([coeff |-> coeff, lo |-> lo, lo_val |-> lo_val,
                         hi |-> hi, hi_val |-> hi_val])

to_interval_wrapped_coeff(sc, is_trivial, coeff, lo_val, lo, hi_val, hi) ==
    LET tagged(t) ==
            [interval |-> IF sc.positive THEN proper(t.lo, t.lo_val, t.hi, t.hi_val)
                          ELSE proper(t.hi, t.hi_val, t.lo, t.lo_val),
             coeff |-> t.coeff]
        normalized(t) == tagged(IF 2 * t.coeff > two_to_N THEN negate_interval(t) ELSE t)
    IN  IF is_trivial THEN
            [interval |-> IF sc.positive THEN empty ELSE full, coeff |-> coeff]
        ELSE normalized([coeff |-> mod(coeff, two_to_N), lo |-> lo, lo_val |-> lo_val,
                         hi |-> hi, hi_val |-> hi_val])

to_interval_unsigned(sc, is_trivial, coeff, lo_val, lo, hi_val, hi) ==
    LET tagged(t) == [interval |-> proper(t.lo, t.lo_val, t.hi, t.hi_val), coeff |-> t.coeff]
        normalized(t) == tagged(IF 2 * t.coeff > two_to_N THEN negate_interval(t) ELSE t)
    IN  IF is_trivial THEN
            [interval |-> IF sc.positive THEN empty ELSE full, coeff |-> coeff]
        ELSE normalized([coeff |-> coeff, lo |-> lo, lo_val |-> lo_val,
                         hi |-> hi, hi_val |-> hi_val])

\* the interval and the coefficient after the call (coeff is passed by reference)
to_interval(sc, is_trivial, coeff, lo_val, lo, hi_val, hi) ==
    LET tagged(t) ==
            [interval |-> IF sc.positive THEN proper(t.lo, t.lo_val, t.hi, t.hi_val)
                          ELSE proper(t.hi, t.hi_val, t.lo, t.lo_val),
             coeff |-> t.coeff]
        normalized(t) == tagged(IF 2 * t.coeff > two_to_N THEN negate_interval(t) ELSE t)
    IN  IF is_trivial THEN
            [interval |-> IF sc.positive THEN empty ELSE full, coeff |-> coeff]
        ELSE normalized([coeff |-> coeff, lo |-> lo, lo_val |-> lo_val,
                         hi |-> hi, hi_val |-> hi_val])

add_non_unit_side_conds_always(r, b1, e1, b2, e2) ==
    LET second(s1) == IF b2 # e2 THEN Append(s1, eq2(b2, e2)) ELSE s1
    IN  [r EXCEPT !.side_cond =
             second(IF b1 # e1 THEN Append(r.side_cond, eq2(b1, e1)) ELSE r.side_cond)]

add_non_unit_side_conds_crossed(r, b1, e1, b2, e2) ==
    LET second(s1) == IF b2 # e2 THEN Append(s1, eq2(b2, e1)) ELSE s1
    IN  IF r.coeff = 1 THEN r
        ELSE [r EXCEPT !.side_cond =
                  second(IF b1 # e1 THEN Append(r.side_cond, eq2(b1, e2)) ELSE r.side_cond)]

add_non_unit_side_conds(r, b1, e1, b2, e2) ==
    LET second(s1) == IF b2 # e2 THEN Append(s1, eq2(b2, e2)) ELSE s1
    IN  IF r.coeff = 1 THEN r
        ELSE [r EXCEPT !.side_cond =
                  second(IF b1 # e1 THEN Append(r.side_cond, eq2(b1, e1)) ELSE r.side_cond)]

\* the record after push_eq, to_interval and add_non_unit_side_conds
linear_result(r, side_cond, ti, b1, e1, b2, e2) ==
    [matched |-> TRUE,
     fi |-> add_non_unit_side_conds(
                [r EXCEPT !.side_cond = side_cond, !.coeff = ti.coeff, !.interval = ti.interval],
                b1, e1, b2, e2)]

match_linear1_off_by_one(sc, a1, b1, e1, a2, b2, e2, r) ==
    LET body(is_trivial) ==
            linear_result(r, push_eq(is_trivial, pdd_add(e2, mk_val(1)), r.side_cond),
                to_interval(sc, is_trivial, a1,
                    val(pdd_sub(b2, b1)), pdd_sub(e2, e1),
                    val(pdd_neg(b1)), pdd_neg(e1)),
                b1, e1, b2, e2)
    IN  IF a2 = 0 /\ a1 # 0 THEN body(is_zero(pdd_add(b2, mk_val(1))))
        ELSE [matched |-> FALSE, fi |-> r]

match_linear1(sc, a1, b1, e1, a2, b2, e2, r) ==
    LET body(is_trivial) ==
            linear_result(r, push_eq(is_trivial, pdd_add(e2, mk_val(1)), r.side_cond),
                to_interval(sc, is_trivial, a1,
                    val(pdd_add(pdd_sub(b2, b1), mk_val(1))), pdd_add(pdd_sub(e2, e1), mk_val(1)),
                    val(pdd_neg(b1)), pdd_neg(e1)),
                b1, e1, b2, e2)
    IN  IF a2 = 0 /\ a1 # 0 THEN body(is_zero(pdd_add(b2, mk_val(1))))
        ELSE [matched |-> FALSE, fi |-> r]

match_linear2(sc, a1, b1, e1, a2, b2, e2, r) ==
    LET body(is_trivial) ==
            linear_result(r, push_eq(is_trivial, e1, r.side_cond),
                to_interval(sc, is_trivial, a2,
                    val(pdd_neg(b2)), pdd_neg(e2),
                    val(pdd_sub(b1, b2)), pdd_sub(e1, e2)),
                b1, e1, b2, e2)
    IN  IF a1 = 0 /\ a2 # 0 THEN body(is_zero(b1))
        ELSE [matched |-> FALSE, fi |-> r]

match_linear3(sc, a1, b1, e1, a2, b2, e2, r) ==
    LET body(is_trivial) ==
            linear_result(r, push_eq(is_trivial, pdd_sub(e1, e2), r.side_cond),
                to_interval(sc, is_trivial, a1,
                    val(pdd_neg(b2)), pdd_neg(e2),
                    val(pdd_neg(b1)), pdd_neg(e1)),
                b1, e1, b2, e2)
    IN  IF a1 = a2 /\ a1 # 0 THEN body(val(b1) = val(b2))
        ELSE [matched |-> FALSE, fi |-> r]

match_linear4_ordered(sc, a1, b1, e1, a2, b2, e2, r) ==
    IF a1 < a2 /\ a1 # 0 /\ a2 # 0 THEN
        linear_result(r, r.side_cond, to_interval(sc, FALSE, 0 - 1, a1, b1, a2, b2),
                      b1, e1, b2, e2)
    ELSE [matched |-> FALSE, fi |-> r]

\* lo_val and hi_val carry a1 and a2, lo and hi carry b1 and b2
match_linear4(sc, a1, b1, e1, a2, b2, e2, r) ==
    IF a1 # a2 /\ a1 # 0 /\ a2 # 0 THEN
        linear_result(r, r.side_cond, to_interval(sc, FALSE, 0 - 1, a1, b1, a2, b2),
                      b1, e1, b2, e2)
    ELSE [matched |-> FALSE, fi |-> r]

unit_result_two_wide(sc, r, lo_val, lo, b, e) ==
    LET iv(hi_val, hi) ==
            IF sc.positive THEN proper(hi, hi_val, lo, lo_val)
            ELSE proper(lo, lo_val, hi, hi_val)
    IN  [matched |-> TRUE,
         fi |-> [r EXCEPT !.coeff = 1,
                          !.interval = iv(mod(lo_val + 2, two_to_N), pdd_add(lo, mk_val(2))),
                          !.side_cond = IF b # e THEN Append(r.side_cond, eq2(b, e))
                                        ELSE r.side_cond]]

unit_result_no_complement(sc, r, lo_val, lo, b, e) ==
    LET iv(hi_val, hi) == proper(lo, lo_val, hi, hi_val)
    IN  [matched |-> TRUE,
         fi |-> [r EXCEPT !.coeff = 1,
                          !.interval = iv(mod(lo_val + 1, two_to_N), pdd_add(lo, mk_val(1))),
                          !.side_cond = IF b # e THEN Append(r.side_cond, eq2(b, e))
                                        ELSE r.side_cond]]

\* the record of match_zero and match_max: the unit interval [lo, lo+1[ for a
\* negated constraint, its complement for a positive one, and the side
\* condition b = e on the constant side
unit_result(sc, r, lo_val, lo, b, e) ==
    LET iv(hi_val, hi) ==
            IF sc.positive THEN proper(hi, hi_val, lo, lo_val)
            ELSE proper(lo, lo_val, hi, hi_val)
    IN  [matched |-> TRUE,
         fi |-> [r EXCEPT !.coeff = 1,
                          !.interval = iv(mod(lo_val + 1, two_to_N), pdd_add(lo, mk_val(1))),
                          !.side_cond = IF b # e THEN Append(r.side_cond, eq2(b, e))
                                        ELSE r.side_cond]]

match_zero_uninverted(sc, a1, b1, e1, a2, b2, e2, r) ==
    LET body(a1_inv) ==
            unit_result(sc, r, mod((0 - val(b1)) * a1_inv, two_to_N),
                        pdd_scale(a1_inv, pdd_neg(e1)), b2, e2)
    IN  IF a1 % 2 = 1 /\ a2 = 0 /\ is_zero(b2) THEN body(a1)
        ELSE [matched |-> FALSE, fi |-> r]

match_zero(sc, a1, b1, e1, a2, b2, e2, r) ==
    LET body(a1_inv) ==
            unit_result(sc, r, mod((0 - val(b1)) * a1_inv, two_to_N),
                        pdd_scale(a1_inv, pdd_neg(e1)), b2, e2)
    IN  IF a1 % 2 = 1 /\ a2 = 0 /\ is_zero(b2) THEN body(mult_inverse(a1))
        ELSE [matched |-> FALSE, fi |-> r]

match_max(sc, a1, b1, e1, a2, b2, e2, r) ==
    LET body(a2_inv) ==
            unit_result(sc, r, mod((0 - 1 - val(b2)) * a2_inv, two_to_N),
                        pdd_scale(a2_inv, pdd_sub(mk_val(0 - 1), e2)), b1, e1)
    IN  IF a1 = 0 /\ is_max(b1) /\ a2 % 2 = 1 THEN body(mult_inverse(a2))
        ELSE [matched |-> FALSE, fi |-> r]

\* the two decompositions at the head of get_interval_ule and
\* get_interval_umul_ovfl; the second appends to the list left by the first
decompose2(sc, r) ==
    LET second(d1) == <<d1, linear_decompose(sc.rhs, d1.side_cond)>>
    IN  second(linear_decompose(sc.lhs, r.side_cond))

\* the result of a call: return value, record, decompositions, _last_function
\* and whether the SASSERTs on the way held
outcome_asserted(res, rec, d, last, ok) ==
    [ret |-> res, fi |-> rec, dec |-> d, last |-> last, asserted |-> ok]

\* a call that reached no SASSERT on the bounds of the overflow path
outcome(res, rec, d, last) == outcome_asserted(res, rec, d, last, TRUE)

get_interval_ule_linear_first(sc, r) ==
    LET failed(r1, d, last) ==
            outcome(FALSE,
                    [r1 EXCEPT !.side_cond = backtrack(FALSE, r1.side_cond, Len(r.side_cond))],
                    d, last)
        choose(r1, d, mz, mm, m1, m2, m3, m4) ==
            IF ~d[1].ok \/ ~d[2].ok \/ (d[1].a = 0 /\ d[2].a = 0) THEN
                failed(r1, d, last_function)
            ELSE IF m1.matched THEN outcome(TRUE, m1.fi, d, "match_linear1")
            ELSE IF m2.matched THEN outcome(TRUE, m2.fi, d, "match_linear2")
            ELSE IF m3.matched THEN outcome(TRUE, m3.fi, d, "match_linear3")
            ELSE IF m4.matched THEN outcome(TRUE, m4.fi, d, "match_linear4")
            ELSE IF mz.matched THEN outcome(TRUE, mz.fi, d, "match_zero")
            ELSE IF mm.matched THEN outcome(TRUE, mm.fi, d, "match_max")
            ELSE failed(r1, d, "match_linear4")
        patterns(r1, d, a1, b1, e1, a2, b2, e2) ==
            choose(r1, d,
                   match_zero(sc, a1, b1, e1, a2, b2, e2, r1),
                   match_max(sc, a1, b1, e1, a2, b2, e2, r1),
                   match_linear1(sc, a1, b1, e1, a2, b2, e2, r1),
                   match_linear2(sc, a1, b1, e1, a2, b2, e2, r1),
                   match_linear3(sc, a1, b1, e1, a2, b2, e2, r1),
                   match_linear4(sc, a1, b1, e1, a2, b2, e2, r1))
        decomposed(r0, d) ==
            patterns([r0 EXCEPT !.side_cond = d[2].side_cond], d,
                     d[1].a, d[1].b, d[1].e, d[2].a, d[2].b, d[2].e)
        entered(r0) == decomposed(r0, decompose2(sc, r0))
    IN  entered([r EXCEPT !.coeff = 1, !.src = Append(r.src, sc)])

\* the patterns are tried in the order of the source; _last_function is the
\* last pattern entered
get_interval_ule(sc, r) ==
    LET failed(r1, d, last) ==
            outcome(FALSE,
                    [r1 EXCEPT !.side_cond = backtrack(FALSE, r1.side_cond, Len(r.side_cond))],
                    d, last)
        choose(r1, d, mz, mm, m1, m2, m3, m4) ==
            IF ~d[1].ok \/ ~d[2].ok \/ (d[1].a = 0 /\ d[2].a = 0) THEN
                failed(r1, d, last_function)
            ELSE IF mz.matched THEN outcome(TRUE, mz.fi, d, "match_zero")
            ELSE IF mm.matched THEN outcome(TRUE, mm.fi, d, "match_max")
            ELSE IF m1.matched THEN outcome(TRUE, m1.fi, d, "match_linear1")
            ELSE IF m2.matched THEN outcome(TRUE, m2.fi, d, "match_linear2")
            ELSE IF m3.matched THEN outcome(TRUE, m3.fi, d, "match_linear3")
            ELSE IF m4.matched THEN outcome(TRUE, m4.fi, d, "match_linear4")
            ELSE failed(r1, d, "match_linear4")
        patterns(r1, d, a1, b1, e1, a2, b2, e2) ==
            choose(r1, d,
                   match_zero(sc, a1, b1, e1, a2, b2, e2, r1),
                   match_max(sc, a1, b1, e1, a2, b2, e2, r1),
                   match_linear1(sc, a1, b1, e1, a2, b2, e2, r1),
                   match_linear2(sc, a1, b1, e1, a2, b2, e2, r1),
                   match_linear3(sc, a1, b1, e1, a2, b2, e2, r1),
                   match_linear4(sc, a1, b1, e1, a2, b2, e2, r1))
        decomposed(r0, d) ==
            patterns([r0 EXCEPT !.side_cond = d[2].side_cond], d,
                     d[1].a, d[1].b, d[1].e, d[2].a, d[2].b, d[2].e)
        entered(r0) == decomposed(r0, decompose2(sc, r0))
    IN  entered([r EXCEPT !.coeff = 1, !.src = Append(r.src, sc)])

B_positive_ceil(A) == (max_value + A) \div A

\* A := div(2^N - 1, b2) of the positive Ovfl(v, e2)
A_positive(b2) == max_value \div b2

\* max B such that A*B < 2^N, for the positive Ovfl(v, e2)
B_positive(A) == ((max_value + A) \div A) - 1

\* the SASSERTs of the positive branch
asserts_positive(b2, A, B) ==
    /\ b2 <= B
    /\ A * B <= max_value
    /\ (A + 1) * B > max_value
    /\ A * (B + 1) > max_value

A_negative_floor(b2) == max_value \div b2

\* A := div(2^N - 1, b2) + 1 of the negated Ovfl(v, e2)
A_negative(b2) == (max_value \div b2) + 1

B_negative_floor(A) == max_value \div A

\* min B such that A*B >= 2^N, for the negated Ovfl(v, e2)
B_negative(A) == (max_value + A) \div A

\* the SASSERTs of the negated branch
asserts_negative(b2, A, B) ==
    /\ A * B > max_value
    /\ A * (B - 1) <= max_value
    /\ (A - 1) * B <= max_value
    /\ b2 >= B

get_interval_umul_ovfl_any_sign(sc, r) ==
    LET failed(r1, d) ==
            outcome(FALSE,
                    [r1 EXCEPT !.side_cond = backtrack(FALSE, r1.side_cond, Len(r.side_cond))],
                    d, last_function)
        positive(r1, d, e2, b2, A) ==
            LET bounded(B) ==
                    IF A >= 4 /\ B >= 4 THEN failed(r1, d)
                    ELSE outcome_asserted(TRUE,
                             [r1 EXCEPT !.interval = proper(mk_val(0), 0, mk_val(A + 1), A + 1),
                                        !.side_cond = Append(r1.side_cond, ule(e2, mk_val(B)))],
                             d, last_function, asserts_positive(b2, A, B))
            IN  bounded(B_positive(A))
        negative(r1, d, e2, b2, A) ==
            LET bounded(B) ==
                    IF A >= 4 /\ B >= 4 THEN failed(r1, d)
                    ELSE outcome_asserted(TRUE,
                             [r1 EXCEPT !.interval = proper(mk_val(A), A, mk_val(0), 0),
                                        !.side_cond = Append(r1.side_cond, ule(mk_val(b2), e2))],
                             d, last_function, asserts_negative(b2, A, B))
            IN  bounded(B_negative(A))
        \* Ovfl(v, e2)
        bare(r1, d, e2, b2) ==
            IF sc.positive THEN
                IF b2 <= 1 THEN
                    outcome(TRUE,
                            [r1 EXCEPT !.interval = full,
                                       !.side_cond = Append(r1.side_cond, ule(e2, mk_val(1)))],
                            d, last_function)
                ELSE positive(r1, d, e2, b2, A_positive(b2))
            ELSE
                IF b2 <= 1 THEN failed(r1, d)
                ELSE negative(r1, d, e2, b2, A_negative(b2))
        \* after the second swap
        both(r1, d, y1, y2) ==
            IF y1.a # 1 \/ y2.a # 0 THEN failed(r1, d)
            ELSE IF ~is_zero(y1.b) THEN failed(r1, d)
            ELSE bare(r1, d, y2.e, val(y2.b))
        \* after the first swap
        swapped(r1, d, x1, x2) ==
            IF x1.ok /\ ~x2.ok /\ x1.a = 1 /\ is_zero(x1.b) THEN
                outcome(TRUE,
                        [r1 EXCEPT !.interval = proper(mk_val(0), 0, mk_val(2), 2),
                                   !.side_cond = backtrack(TRUE, r1.side_cond, Len(r.side_cond))],
                        d, last_function)
            ELSE IF ~x1.ok \/ ~x2.ok THEN failed(r1, d)
            ELSE IF x2.a = 1 /\ x1.a = 0 THEN both(r1, d, x2, x1)
            ELSE both(r1, d, x1, x2)
        decomposed(r0, d) ==
            IF d[2].ok /\ ~d[1].ok
            THEN swapped([r0 EXCEPT !.side_cond = d[2].side_cond], d, d[2], d[1])
            ELSE swapped([r0 EXCEPT !.side_cond = d[2].side_cond], d, d[1], d[2])
        entered(r0) == decomposed(r0, decompose2(sc, r0))
    IN  entered([r EXCEPT !.coeff = 1, !.src = Append(r.src, sc)])

get_interval_umul_ovfl(sc, r) ==
    LET failed(r1, d) ==
            outcome(FALSE,
                    [r1 EXCEPT !.side_cond = backtrack(FALSE, r1.side_cond, Len(r.side_cond))],
                    d, last_function)
        positive(r1, d, e2, b2, A) ==
            LET bounded(B) ==
                    IF A >= 4 /\ B >= 4 THEN failed(r1, d)
                    ELSE outcome_asserted(TRUE,
                             [r1 EXCEPT !.interval = proper(mk_val(0), 0, mk_val(A + 1), A + 1),
                                        !.side_cond = Append(r1.side_cond, ule(e2, mk_val(B)))],
                             d, last_function, asserts_positive(b2, A, B))
            IN  bounded(B_positive(A))
        negative(r1, d, e2, b2, A) ==
            LET bounded(B) ==
                    IF A >= 4 /\ B >= 4 THEN failed(r1, d)
                    ELSE outcome_asserted(TRUE,
                             [r1 EXCEPT !.interval = proper(mk_val(A), A, mk_val(0), 0),
                                        !.side_cond = Append(r1.side_cond, ule(mk_val(b2), e2))],
                             d, last_function, asserts_negative(b2, A, B))
            IN  bounded(B_negative(A))
        \* Ovfl(v, e2)
        bare(r1, d, e2, b2) ==
            IF sc.positive THEN
                IF b2 <= 1 THEN
                    outcome(TRUE,
                            [r1 EXCEPT !.interval = full,
                                       !.side_cond = Append(r1.side_cond, ule(e2, mk_val(1)))],
                            d, last_function)
                ELSE positive(r1, d, e2, b2, A_positive(b2))
            ELSE
                IF b2 <= 1 THEN failed(r1, d)
                ELSE negative(r1, d, e2, b2, A_negative(b2))
        \* after the second swap
        both(r1, d, y1, y2) ==
            IF y1.a # 1 \/ y2.a # 0 THEN failed(r1, d)
            ELSE IF ~is_zero(y1.b) THEN failed(r1, d)
            ELSE bare(r1, d, y2.e, val(y2.b))
        \* after the first swap
        swapped(r1, d, x1, x2) ==
            IF x1.ok /\ ~x2.ok /\ x1.a = 1 /\ is_zero(x1.b) /\ sc.positive THEN
                outcome(TRUE,
                        [r1 EXCEPT !.interval = proper(mk_val(0), 0, mk_val(2), 2),
                                   !.side_cond = backtrack(TRUE, r1.side_cond, Len(r.side_cond))],
                        d, last_function)
            ELSE IF ~x1.ok \/ ~x2.ok THEN failed(r1, d)
            ELSE IF x2.a = 1 /\ x1.a = 0 THEN both(r1, d, x2, x1)
            ELSE both(r1, d, x1, x2)
        decomposed(r0, d) ==
            IF d[2].ok /\ ~d[1].ok
            THEN swapped([r0 EXCEPT !.side_cond = d[2].side_cond], d, d[2], d[1])
            ELSE swapped([r0 EXCEPT !.side_cond = d[2].side_cond], d, d[1], d[2])
        entered(r0) == decomposed(r0, decompose2(sc, r0))
    IN  entered([r EXCEPT !.coeff = 1, !.src = Append(r.src, sc)])

get_interval(sc, r) ==
    IF sc.kind = "ule" THEN get_interval_ule(sc, [r EXCEPT !.bit_width = N])
    ELSE IF sc.kind = "umul_ovfl" THEN get_interval_umul_ovfl(sc, [r EXCEPT !.bit_width = N])
    ELSE outcome(FALSE, [r EXCEPT !.bit_width = N], NoDec, last_function)

-----------------------------------------------------------------------------
(* saturation: constraints over polynomials in v, the core, the rules. *)

\* c.var(v)
var_v == [k0 |-> zero, k1 |-> mk_val(1), k2 |-> zero]

\* the pdd y as a polynomial free of v
poly_const(y) == [k0 |-> y, k1 |-> zero, k2 |-> zero]

poly_sub(p, q) ==
    [k0 |-> pdd_sub(p.k0, q.k0), k1 |-> pdd_sub(p.k1, q.k1), k2 |-> pdd_sub(p.k2, q.k2)]

\* constraints::ule(p, q) over polynomials of bit-width bits
ule_v(p, q, bits) == [kind |-> "ule", positive |-> TRUE, lhs |-> p, rhs |-> q, bits |-> bits]

\* constraints::ult(p, q) is ~(q <= p)
ult_v(p, q, bits) == neg(ule_v(q, p, bits))

\* constraints::umul_ovfl(p, q)
umul_ovfl_v(p, q, bits) ==
    [kind |-> "umul_ovfl", positive |-> TRUE, lhs |-> p, rhs |-> q, bits |-> bits]

\* constraints::eq(p) is p <= 0
eq_v(p, bits) == ule_v(p, poly_const(zero), bits)

\* core::eval(id) == l_true: both sides are values under the assignment and the
\* signed constraint holds
eval_true(sc) ==
    /\ degree(sc.lhs) = 0 /\ degree(sc.rhs) = 0
    /\ is_val(subst(sc.lhs.k0)) /\ is_val(subst(sc.rhs.k0))
    /\ holds(sc, 0, IF asg = <<>> THEN 0 ELSE asg[1])

\* inequality::from_ule: p <= q as it stands, ~(p <= q) as the strict q < p
from_ule(id) ==
    LET make(src) ==
            IF src.positive
            THEN [id |-> id, lhs |-> src.lhs, rhs |-> src.rhs, strict |-> FALSE, src |-> src]
            ELSE [id |-> id, lhs |-> src.rhs, rhs |-> src.lhs, strict |-> TRUE, src |-> src]
    IN  make(unsat_core[id])

\* inequality::is_xY_l_xZ: both sides are v times a polynomial free of v
is_xY_l_xZ(i) ==
    /\ degree(i.lhs) = 1 /\ i.lhs.k0 = zero
    /\ degree(i.rhs) = 1 /\ i.rhs.k0 = zero

\* core::propagate(sc, premises): records the literal, answers whether it is new
core_propagate(st, sc, premises) ==
    LET entry == [lit |-> sc, premises |-> premises]
    IN  [st EXCEPT !.propagated = @ \cup {entry},
                   !.reported = Append(@, [request |-> "propagate", what |-> entry,
                                           new |-> entry \notin st.propagated])]

\* core::add_clause(name, cs, is_redundant): records the clause, answers whether it is new
core_add_clause(st, name, cs) ==
    [st EXCEPT !.clauses = @ \cup {cs},
               !.reported = Append(@, [request |-> "add_clause", what |-> cs,
                                       new |-> cs \notin st.clauses])]

\* saturation::add_clause
add_clause(st, name, cs) ==
    LET flagged(s) == IF cs \notin st.clauses THEN [s EXCEPT !.m_propagated = TRUE] ELSE s
    IN  flagged(core_add_clause(st, name, cs))

\* saturation::match_core: the first id of the unsat core whose constraint
\* satisfies p, or 0; p is a function from the constraints of the core to BOOLEAN
match_core(p) ==
    LET S == {j \in 1..Len(unsat_core) : p[unsat_core[j]]}
    IN  IF S = {} THEN 0 ELSE CHOOSE j \in S : \A k \in S : j <= k

propagate_infer_equality_any_sign(st, i) ==
    LET mirror == [sc \in {unsat_core[j] : j \in 1..Len(unsat_core)} |->
                      sc.kind = "ule" /\ sc.lhs = i.rhs /\ sc.rhs = i.lhs]
        found(id) ==
            IF id = 0 THEN st
            ELSE core_propagate(st, eq_v(poly_sub(i.lhs, i.rhs), i.src.bits), {id, i.id})
    IN  IF i.strict THEN st
        ELSE IF degree(i.lhs) = 0 /\ degree(i.rhs) = 0 THEN st
        ELSE found(match_core(mirror))

\* p <= q, q <= p => p = q
propagate_infer_equality(st, i) ==
    LET mirror == [sc \in {unsat_core[j] : j \in 1..Len(unsat_core)} |->
                      sc.kind = "ule" /\ sc.positive /\ sc.lhs = i.rhs /\ sc.rhs = i.lhs]
        found(id) ==
            IF id = 0 THEN st
            ELSE core_propagate(st, eq_v(poly_sub(i.lhs, i.rhs), i.src.bits), {id, i.id})
    IN  IF i.strict THEN st
        ELSE IF degree(i.lhs) = 0 /\ degree(i.rhs) = 0 THEN st
        ELSE found(match_core(mirror))

try_ugt_x_no_zero_case(st, i) ==
    LET clause(y, z, ovfl) ==
            IF i.strict
            THEN add_clause(st, "[x] yx < zx ==> ovfl(x,y) \\/ y < z",
                            <<i.src, ovfl, ult_v(y, z, i.src.bits)>>)
            ELSE add_clause(st, "[x] yx <= zx ==> ovfl(x,y) \\/ y <= z \\/ x = 0",
                            <<i.src, ovfl, ule_v(y, z, i.src.bits)>>)
        matched(y, z) == clause(y, z, umul_ovfl_v(var_v, y, i.src.bits))
    IN  IF ~is_xY_l_xZ(i) THEN st
        ELSE matched(poly_const(i.lhs.k1), poly_const(i.rhs.k1))

\* [x] yx < zx ==> ovfl(x,y) \/ y < z;  [x] yx <= zx ==> ovfl(x,y) \/ y <= z \/ x = 0
\* a clause is the premise i.dep() followed by the literals
try_ugt_x(st, i) ==
    LET clause(y, z, ovfl) ==
            IF i.strict
            THEN add_clause(st, "[x] yx < zx ==> ovfl(x,y) \\/ y < z",
                            <<i.src, ovfl, ult_v(y, z, i.src.bits)>>)
            ELSE add_clause(st, "[x] yx <= zx ==> ovfl(x,y) \\/ y <= z \\/ x = 0",
                            <<i.src, ovfl, eq_v(var_v, i.src.bits), ule_v(y, z, i.src.bits)>>)
        matched(y, z) == clause(y, z, umul_ovfl_v(var_v, y, i.src.bits))
    IN  IF ~is_xY_l_xZ(i) THEN st
        ELSE matched(poly_const(i.lhs.k1), poly_const(i.rhs.k1))

\* the product p * q of two polynomials, kept as a term
mul(p, q) == [mul |-> <<p, q>>]

\* the term t is a product
is_mul(t) == "mul" \in DOMAIN t

RECURSIVE eval_term(_, _, _)
\* value of the term t at v = x, w = y
eval_term(t, x, y) ==
    IF is_mul(t)
    THEN mod(eval_term(t.mul[1], x, y) * eval_term(t.mul[2], x, y), two_to_N)
    ELSE eval_poly(t, x, y)

\* truth of the signed constraint sc over terms at v = x, w = y
holds_term(sc, x, y) ==
    LET l == eval_term(sc.lhs, x, y)
        r == eval_term(sc.rhs, x, y)
    IN  IF sc.kind = "ule" THEN (l <= r) <=> sc.positive
        ELSE (l * r > max_value) <=> sc.positive

\* saturation::ineq
ineq(is_strict, x, y, bits) == IF is_strict THEN ult_v(x, y, bits) ELSE ule_v(x, y, bits)

\* c := lhs ~ v
is_l_v(sc) ==
    /\ sc.kind = "ule"
    /\ (IF sc.positive THEN sc.rhs ELSE sc.lhs) = var_v

\* c := v ~ rhs
is_g_v(sc) ==
    /\ sc.kind = "ule"
    /\ (IF sc.positive THEN sc.lhs ELSE sc.rhs) = var_v

\* c := X*y ~ X*Z with y the variable v
is_Xy_l_XZ(i) ==
    /\ is_mul(i.lhs) /\ is_mul(i.rhs)
    /\ i.lhs.mul[2] = var_v
    /\ i.rhs.mul[1] = i.lhs.mul[1]

\* c := Y*X ~ z*X with z the variable v
is_YX_l_zX(i) ==
    /\ is_mul(i.lhs) /\ is_mul(i.rhs)
    /\ i.rhs.mul[1] = var_v
    /\ i.lhs.mul[2] = i.rhs.mul[2]

\* saturation::match_constraints: the first assigned constraint id whose
\* constraint satisfies p, or 0
match_constraints(p) ==
    LET S == {k \in 1..Len(assigned) : p[unsat_core[assigned[k]]]}
        first(k) == assigned[k]
    IN  IF S = {} THEN 0 ELSE first(CHOOSE k \in S : \A l \in S : k <= l)

\* [y] z' <= y /\ yx <= zx  ==>  ovfl(x,y) \/ z'x <= zx, and its strict variants;
\* a clause is the premises i and j followed by the literals
try_ugt_y(st, i) ==
    LET lower == [sc \in {unsat_core[k] : k \in 1..Len(unsat_core)} |-> is_l_v(sc)]
        emit(x, z, j, z_prime, bits) ==
            add_clause(st, "[y] z' <= y & yx <= zx",
                       <<i.src, j.src, umul_ovfl_v(x, var_v, bits),
                         ineq(i.strict \/ j.strict, mul(z_prime, x), mul(z, x), bits)>>)
        found(x, z, id) ==
            IF id = 0 THEN st
            ELSE emit(x, z, from_ule(id), i.lhs, i.src.bits)
    IN  IF ~is_Xy_l_XZ(i) THEN st
        ELSE found(i.lhs.mul[1], i.rhs.mul[2], match_constraints(lower))

\* [z] z <= y' /\ yx <= zx  ==>  ovfl(x,y') \/ yx <= y'x, and its strict variants
try_ugt_z(st, i) ==
    LET upper == [sc \in {unsat_core[k] : k \in 1..Len(unsat_core)} |-> is_g_v(sc)]
        emit(x, y, j, y_prime, bits) ==
            add_clause(st, "[z] z <= y' && yx <= zx",
                       <<i.src, j.src, umul_ovfl_v(x, y_prime, bits),
                         ineq(i.strict \/ j.strict, mul(y, x), mul(y_prime, x), bits)>>)
        found(x, y, id) ==
            IF id = 0 THEN st
            ELSE emit(x, y, from_ule(id), from_ule(id).rhs, i.src.bits)
    IN  IF ~is_YX_l_zX(i) THEN st
        ELSE found(i.rhs.mul[2], i.lhs.mul[1], match_constraints(upper))

propagate_inequality_first_match(st, i) ==
    LET after(s) == IF s.reported # st.reported THEN s ELSE try_ugt_x(s, i)
    IN  IF N # i.src.bits THEN st
        ELSE after(propagate_infer_equality(st, i))

\* saturation::propagate(pvar v, inequality const& i)
propagate_inequality(st, i) ==
    IF N # i.src.bits THEN st
    ELSE try_ugt_x(propagate_infer_equality(st, i), i)

\* saturation::propagate(pvar v, constraint_id id): the engine after the call
\* and the value returned
propagate_id(st, id) ==
    LET done(s) == [st |-> s, ret |-> s.m_propagated]
        cleared(s) ==
            IF unsat_core[id].kind = "ule"
            THEN done(propagate_inequality(s, from_ule(id)))
            ELSE done(s)
    IN  IF eval_true(unsat_core[id]) THEN [st |-> st, ret |-> FALSE]
        ELSE cleared([st EXCEPT !.m_propagated = FALSE])

-----------------------------------------------------------------------------
(* Inputs: the constraints and assignments the calls are made with. *)

\* the residues modulo 2^n of -k..k
SVals(n, k) == {x % (2 ^ n) : x \in (0 - k)..k}

\* constant pdds
ConstPdds(n, S) == {[c0 |-> k % (2 ^ n), c1 |-> 0] : k \in S}

\* pdds w + k
SymPdds(n, S) == {[c0 |-> k % (2 ^ n), c1 |-> 1 % (2 ^ n)] : k \in S}

\* the polynomial v^2
Square == [k0 |-> [c0 |-> 0, c1 |-> 0], k1 |-> [c0 |-> 0, c1 |-> 0], k2 |-> [c0 |-> 1, c1 |-> 0]]

\* polynomials of degree <= 1 in v with constant or symbolic coefficient and
\* offset, and v^2
Polys(n, ka) ==
    [k0 : ConstPdds(n, SVals(n, MaxB)) \cup SymPdds(n, SVals(n, 1)),
     k1 : ConstPdds(n, SVals(n, ka)) \cup SymPdds(n, SVals(n, 1)),
     k2 : ConstPdds(n, {0})]
    \cup {Square}

Constraints(n) ==
    [kind : {"ule"}, positive : BOOLEAN, lhs : Polys(n, MaxA), rhs : Polys(n, MaxA)]
    \cup [kind : {"umul_ovfl"}, positive : BOOLEAN, lhs : Polys(n, 1), rhs : Polys(n, 1)]
    \cup [kind : {"smul_ovfl"}, positive : BOOLEAN,
          lhs : Polys(n, 0), rhs : {Square}]

\* umul_ovfl(x, k) and umul_ovfl(k, x) with x one of v, w*v and a constant k,
\* at the bit-width WideN
WideConstraints ==
    LET x == [k0 : {[c0 |-> 0, c1 |-> 0]},
              k1 : {[c0 |-> 1, c1 |-> 0], [c0 |-> 0, c1 |-> 1]},
              k2 : {[c0 |-> 0, c1 |-> 0]}]
        k == [k0 : ConstPdds(WideN, 0..MaxWide), k1 : ConstPdds(WideN, {0}),
              k2 : ConstPdds(WideN, {0})]
    IN  [kind : {"umul_ovfl"}, positive : BOOLEAN, lhs : x, rhs : k]
        \cup [kind : {"umul_ovfl"}, positive : BOOLEAN, lhs : k, rhs : x]

\* a*v + b <= 0 and -1 <= a*v + b with odd a, at the bit-width WideN
WideUnitConstraints ==
    LET k(x) == [c0 |-> x % (2 ^ WideN), c1 |-> 0]
        lin == {[k0 |-> k(b), k1 |-> k(a), k2 |-> k(0)] :
                   a \in {x \in 1..MaxWide : x % 2 = 1}, b \in 0..MaxWide}
        const(x) == [k0 |-> k(x), k1 |-> k(0), k2 |-> k(0)]
    IN  [kind : {"ule"}, positive : BOOLEAN, lhs : lin, rhs : {const(0)}]
        \cup [kind : {"ule"}, positive : BOOLEAN, lhs : {const(0 - 1)}, rhs : lin]

Assignments == {<<>>} \cup {<<w>> : w \in 1..MaxWVal}

NoTriple == [coeff |-> 0, lo |-> [c0 |-> 0, c1 |-> 0], lo_val |-> 0,
             hi |-> [c0 |-> 0, c1 |-> 0], hi_val |-> 0]

\* inputs of the normalization: a coefficient and two constant endpoints
Triples(n) ==
    {[coeff |-> k, lo |-> [c0 |-> l, c1 |-> 0], lo_val |-> l,
      hi |-> [c0 |-> h, c1 |-> 0], hi_val |-> h] :
        k \in 1..(2 ^ n - 1), l \in 0..(2 ^ n - 1), h \in 0..(2 ^ n - 1)}

-----
(* The machine. *)

\* the saturation engine is not in use
SatIdle ==
    /\ unsat_core = <<>>
    /\ m_propagated = FALSE
    /\ propagated = {}
    /\ clauses = {}
    /\ reported = <<>>
    /\ sat_ret = FALSE
    /\ sat_id = 0
    /\ calls = 0
    /\ assigned = <<>>

Init ==
    /\ \/ N \in 1..MaxN /\ c \in Constraints(N)
       \/ N = WideN /\ c \in WideConstraints \cup WideUnitConstraints
    /\ asg \in Assignments
    /\ fi = fi_record
    /\ ret = FALSE
    /\ dec = NoDec
    /\ pc = "ready"
    /\ tin = NoTriple /\ tout = NoTriple /\ tcnt = 0
    /\ last_function = ""
    /\ asserted = TRUE
    /\ SatIdle

\* the caller invokes get_interval on a reset record
GetInterval ==
    /\ pc = "ready"
    /\ \E res \in {get_interval(c, fi)} :
           /\ fi' = res.fi
           /\ ret' = res.ret
           /\ dec' = res.dec
           /\ last_function' = res.last
           /\ asserted' = res.asserted
    /\ pc' = "done"
    /\ UNCHANGED <<N, c, asg, tin, tout, tcnt, satvars>>

\* the caller resets the record before the next attempt
Reset ==
    /\ pc = "done"
    /\ fi' = reset(fi)
    /\ ret' = FALSE
    /\ dec' = NoDec
    /\ pc' = "ready"
    /\ UNCHANGED <<N, c, asg, tin, tout, tcnt, last_function, asserted, satvars>>

Next == GetInterval \/ Reset

Spec == Init /\ [][Next]_vars

(* The normalization of to_interval applied on its own. *)

InitNorm ==
    /\ N \in 1..MaxN
    /\ tin \in Triples(N)
    /\ tout = tin
    /\ tcnt = 0
    /\ c = [kind |-> "ule", positive |-> TRUE, lhs |-> Square, rhs |-> Square]
    /\ asg = <<>>
    /\ fi = fi_record
    /\ ret = FALSE
    /\ dec = NoDec
    /\ pc = "norm"
    /\ last_function = ""
    /\ asserted = TRUE
    /\ SatIdle

Normalize ==
    /\ pc = "norm"
    /\ tcnt < 2
    /\ tout' = negate_interval(tout)
    /\ tcnt' = tcnt + 1
    /\ UNCHANGED <<N, c, asg, fi, ret, dec, pc, tin, last_function, asserted, satvars>>

NextNorm == Normalize

SpecNorm == InitNorm /\ [][NextNorm]_vars

(* get_interval called again and again, on one record reset between the calls. *)

\* v, 2v, v + 1, 2v + w, w, 1 and v^2
HistPolys(n) ==
    LET k(x) == [c0 |-> x % (2 ^ n), c1 |-> 0]
        sym == [c0 |-> 0, c1 |-> 1 % (2 ^ n)]
    IN  {[k0 |-> k(0), k1 |-> k(1), k2 |-> k(0)], [k0 |-> k(0), k1 |-> k(2), k2 |-> k(0)],
         [k0 |-> k(1), k1 |-> k(1), k2 |-> k(0)], [k0 |-> sym, k1 |-> k(2), k2 |-> k(0)],
         [k0 |-> sym, k1 |-> k(0), k2 |-> k(0)], [k0 |-> k(1), k1 |-> k(0), k2 |-> k(0)],
         Square}

HistConstraints(n) ==
    [kind : {"ule", "umul_ovfl"}, positive : BOOLEAN, lhs : HistPolys(n), rhs : HistPolys(n)]
    \cup [kind : {"smul_ovfl"}, positive : {TRUE}, lhs : {Square}, rhs : {Square}]

InitHist ==
    /\ N \in 1..MaxN
    /\ c \in HistConstraints(N)
    /\ asg \in Assignments
    /\ fi = fi_record
    /\ ret = FALSE
    /\ dec = NoDec
    /\ pc = "ready"
    /\ tin = NoTriple /\ tout = NoTriple /\ tcnt = 0
    /\ last_function = ""
    /\ asserted = TRUE
    /\ SatIdle

\* the caller resets the record and makes the next attempt on another constraint
Retry ==
    /\ pc = "done"
    /\ fi' = reset(fi)
    /\ c' \in HistConstraints(N)
    /\ ret' = FALSE
    /\ dec' = NoDec
    /\ pc' = "ready"
    /\ UNCHANGED <<N, asg, tin, tout, tcnt, last_function, asserted, satvars>>

NextHist == GetInterval \/ Retry

SpecHist == InitHist /\ [][NextHist]_vars

(* The overflow path called with every value of the other operand. *)

\* v, w*v, v + 1, 2v and v^2
OvflOperands(n) ==
    LET k(x) == [c0 |-> x % (2 ^ n), c1 |-> 0]
        sym == [c0 |-> 0, c1 |-> 1 % (2 ^ n)]
    IN  {[k0 |-> k(0), k1 |-> k(1), k2 |-> k(0)], [k0 |-> k(0), k1 |-> sym, k2 |-> k(0)],
         [k0 |-> k(1), k1 |-> k(1), k2 |-> k(0)], [k0 |-> k(0), k1 |-> k(2), k2 |-> k(0)],
         Square}

\* the constants 0..2^n-1, w and w + 1
OvflOthers(n) ==
    [k0 : ConstPdds(n, 0..(2 ^ n - 1)) \cup SymPdds(n, {0, 1}),
     k1 : ConstPdds(n, {0}), k2 : ConstPdds(n, {0})]

OvflConstraints(n) ==
    [kind : {"umul_ovfl"}, positive : BOOLEAN,
     lhs : OvflOperands(n), rhs : OvflOperands(n) \cup OvflOthers(n)]
    \cup [kind : {"umul_ovfl"}, positive : BOOLEAN,
          lhs : OvflOthers(n), rhs : OvflOperands(n)]

\* the other variable is unassigned or has any value
OvflAssignments(n) == {<<>>} \cup {<<w>> : w \in 0..(2 ^ n - 1)}

InitOvfl ==
    /\ N \in 1..OvflMaxN
    /\ c \in OvflConstraints(N)
    /\ asg \in OvflAssignments(N)
    /\ fi = fi_record
    /\ ret = FALSE
    /\ dec = NoDec
    /\ pc = "ready"
    /\ tin = NoTriple /\ tout = NoTriple /\ tcnt = 0
    /\ last_function = ""
    /\ asserted = TRUE
    /\ SatIdle

NextOvfl == GetInterval \/ Reset

SpecOvfl == InitOvfl /\ [][NextOvfl]_vars

(* The saturation engine called on the constraints of an unsat core. *)

\* v*Y for the constants Y # 0 and for Y = w, Y = w + 1; constants; v + 1
SatPolys(n) ==
    LET k(x) == [c0 |-> x % (2 ^ n), c1 |-> 0]
        sym(x) == [c0 |-> x % (2 ^ n), c1 |-> 1 % (2 ^ n)]
    IN  {[k0 |-> k(0), k1 |-> y, k2 |-> k(0)] :
            y \in {k(x) : x \in 1..(2 ^ n - 1)} \cup {sym(0), sym(1)}}
        \cup {[k0 |-> y, k1 |-> k(0), k2 |-> k(0)] : y \in {k(0), k(1), sym(0)}}
        \cup {[k0 |-> k(1), k1 |-> k(1), k2 |-> k(0)]}

\* p <= q and ~(p <= q) with p # q, of the bit-width of v or wider; umul_ovfl(v, 1)
SatConstraints(n) ==
    {sc \in [kind : {"ule"}, positive : BOOLEAN, lhs : SatPolys(n), rhs : SatPolys(n),
             bits : {n, n + 1}] : sc.lhs # sc.rhs}
    \cup [kind : {"umul_ovfl"}, positive : BOOLEAN,
          lhs : {[k0 |-> [c0 |-> 0, c1 |-> 0], k1 |-> [c0 |-> 1 % (2 ^ n), c1 |-> 0],
                  k2 |-> [c0 |-> 0, c1 |-> 0]]},
          rhs : {[k0 |-> [c0 |-> 1 % (2 ^ n), c1 |-> 0], k1 |-> [c0 |-> 0, c1 |-> 0],
                  k2 |-> [c0 |-> 0, c1 |-> 0]]},
          bits : {n}]

\* unsat cores of two constraints: the second is the first, its negation, or
\* its mirror q <= p, positive or negated
SatCores(n) ==
    LET seconds(c1) ==
            {c1, neg(c1)}
            \cup {[c1 EXCEPT !.lhs = c1.rhs, !.rhs = c1.lhs, !.positive = s] : s \in BOOLEAN}
    IN  UNION {{<<c1, c2>> : c2 \in seconds(c1)} : c1 \in SatConstraints(n)}

InitSat ==
    /\ N \in 1..SatMaxN
    /\ asg \in Assignments
    /\ \E core \in SatCores(N) :
          /\ unsat_core = core
          /\ c = core[1]
    /\ m_propagated = FALSE
    /\ propagated = {}
    /\ clauses = {}
    /\ reported = <<>>
    /\ sat_ret = FALSE
    /\ sat_id = 0
    /\ calls = 0
    /\ assigned = <<>>
    /\ fi = fi_record
    /\ ret = FALSE
    /\ dec = NoDec
    /\ pc = "sat"
    /\ tin = NoTriple /\ tout = NoTriple /\ tcnt = 0
    /\ last_function = ""
    /\ asserted = TRUE

\* one call saturation::propagate(v, id)
Propagate ==
    /\ pc = "sat"
    /\ calls < MaxCalls
    /\ \E id \in 1..Len(unsat_core) :
       \E res \in {propagate_id([m_propagated |-> m_propagated, propagated |-> propagated,
                                 clauses |-> clauses, reported |-> <<>>], id)} :
           /\ m_propagated' = res.st.m_propagated
           /\ propagated' = res.st.propagated
           /\ clauses' = res.st.clauses
           /\ reported' = res.st.reported
           /\ sat_ret' = res.ret
           /\ sat_id' = id
    /\ calls' = calls + 1
    /\ UNCHANGED <<N, c, asg, fi, ret, dec, pc, tin, tout, tcnt, last_function, asserted,
                   unsat_core, assigned>>

NextSat == Propagate

SpecSat == InitSat /\ [][NextSat]_vars

(* try_ugt_y and try_ugt_z called on the constraints of the core. *)

\* the constants 0..2^n-1 and w + 1, free of v
UgtFactors(n) ==
    [k0 : ConstPdds(n, 0..(2 ^ n - 1)) \cup SymPdds(n, {1}),
     k1 : ConstPdds(n, {0}), k2 : ConstPdds(n, {0})]

\* the factor x = w
UgtX(n) == [k0 |-> [c0 |-> 0, c1 |-> 1 % (2 ^ n)], k1 |-> [c0 |-> 0, c1 |-> 0],
            k2 |-> [c0 |-> 0, c1 |-> 0]]

\* v as a polynomial of bit-width n
UgtV(n) == [k0 |-> [c0 |-> 0, c1 |-> 0], k1 |-> [c0 |-> 1 % (2 ^ n), c1 |-> 0],
            k2 |-> [c0 |-> 0, c1 |-> 0]]

\* p <= q and p < q for the given sides: p < q is ~(q <= p)
UgtInequalities(n, P, Q) ==
    {[kind |-> "ule", positive |-> TRUE, lhs |-> p, rhs |-> q, bits |-> n] : p \in P, q \in Q}
    \cup {[kind |-> "ule", positive |-> FALSE, lhs |-> q, rhs |-> p, bits |-> n] :
              p \in P, q \in Q}

\* the product premises x*v ~ x*Z and Y*x ~ v*x
UgtProducts(n) ==
    UgtInequalities(n, {mul(UgtX(n), UgtV(n))}, {mul(UgtX(n), z) : z \in UgtFactors(n)})
    \cup UgtInequalities(n, {mul(y, UgtX(n)) : y \in UgtFactors(n)},
                          {mul(UgtV(n), UgtX(n))})

\* the bounds z' ~ v and v ~ y'
UgtBounds(n) ==
    UgtInequalities(n, UgtFactors(n), {UgtV(n)})
    \cup UgtInequalities(n, {UgtV(n)}, UgtFactors(n))

InitUgt ==
    /\ N \in 1..UgtMaxN
    /\ asg = <<>>
    /\ \E i \in UgtProducts(N) : \E j \in UgtBounds(N) :
          /\ unsat_core = <<i, j>>
          /\ c = i
    /\ assigned \in {<<>>, <<2>>, <<1, 2>>}
    /\ m_propagated = FALSE
    /\ propagated = {}
    /\ clauses = {}
    /\ reported = <<>>
    /\ sat_ret = FALSE
    /\ sat_id = 0
    /\ calls = 0
    /\ fi = fi_record
    /\ ret = FALSE
    /\ dec = NoDec
    /\ pc = "ugt"
    /\ tin = NoTriple /\ tout = NoTriple /\ tcnt = 0
    /\ last_function = ""
    /\ asserted = TRUE

\* the engine after a rule was applied to the constraint id
UgtStep(res, id) ==
    /\ m_propagated' = res.m_propagated
    /\ propagated' = res.propagated
    /\ clauses' = res.clauses
    /\ reported' = res.reported
    /\ sat_id' = id
    /\ calls' = calls + 1
    /\ UNCHANGED <<N, c, asg, fi, ret, dec, pc, tin, tout, tcnt, last_function, asserted,
                   unsat_core, assigned, sat_ret>>

\* one call saturation::try_ugt_y(v, i) on a ULE constraint of the core
TryUgtY ==
    /\ pc = "ugt"
    /\ calls < MaxCalls
    /\ \E id \in 1..Len(unsat_core) :
       \E res \in {try_ugt_y([m_propagated |-> m_propagated, propagated |-> propagated,
                              clauses |-> clauses, reported |-> <<>>], from_ule(id))} :
           UgtStep(res, id)

\* one call saturation::try_ugt_z(v, i) on a ULE constraint of the core
TryUgtZ ==
    /\ pc = "ugt"
    /\ calls < MaxCalls
    /\ \E id \in 1..Len(unsat_core) :
       \E res \in {try_ugt_z([m_propagated |-> m_propagated, propagated |-> propagated,
                              clauses |-> clauses, reported |-> <<>>], from_ule(id))} :
           UgtStep(res, id)

NextUgt == TryUgtY \/ TryUgtZ

SpecUgt == InitUgt /\ [][NextUgt]_vars

-----------------------------------------------------------------------------
(* Vocabulary of the properties. *)

Values == 0..max_value

\* get_interval has returned true
Succeeded == pc = "done" /\ ret

\* the values of the other variable that agree with the current assignment
CurrentW == IF asg = <<>> THEN Values ELSE {asg[1]}

\* all side conditions of the record hold when the other variable is y
SideCondsHold(y) == \A i \in 1..Len(fi.side_cond) : holds_side(fi.side_cond[i], y)

\* y lies in the interval iv, its endpoints taken from lo_val and hi_val
InIntervalVal(iv, y) ==
    CASE iv.tag = "full"  -> TRUE
      [] iv.tag = "empty" -> FALSE
      [] OTHER            -> in_range(y, iv.lo_val, iv.hi_val)

\* y lies in the interval iv, its endpoints evaluated with the other variable at w
InIntervalAt(iv, y, w) ==
    CASE iv.tag = "full"  -> TRUE
      [] iv.tag = "empty" -> FALSE
      [] OTHER            -> in_range(y, eval_pdd(iv.lo, w), eval_pdd(iv.hi, w))

\* the constraint is v <= k with a constant k # 2^N - 1
IsVLeK ==
    /\ c.kind = "ule" /\ c.positive
    /\ c.lhs = [k0 |-> zero, k1 |-> mk_val(1), k2 |-> zero]
    /\ c.rhs.k1 = zero /\ c.rhs.k2 = zero
    /\ is_val(c.rhs.k0) /\ val(c.rhs.k0) # max_value

\* C1 (as claimed): on the ULE path every value of v outside the returned
\* interval, under which the side conditions hold, satisfies the constraint.
C1_OutsideIntervalSatisfies ==
    (Succeeded /\ c.kind = "ule") =>
        \A w \in CurrentW : \A x \in Values :
            (~InIntervalVal(fi.interval, x) /\ SideCondsHold(w)) => holds(c, x, w)

\* C1 (amended): on the ULE path with coeff # -1 every value of v whose
\* product coeff*v mod 2^N is outside the returned interval, under which the
\* side conditions hold, satisfies the constraint.
C1_OutsideScaledIntervalSatisfies ==
    (Succeeded /\ c.kind = "ule" /\ fi.coeff # 0 - 1) =>
        \A w \in CurrentW : \A x \in Values :
            (~InIntervalVal(fi.interval, mod(fi.coeff * x, two_to_N)) /\ SideCondsHold(w))
                => holds(c, x, w)

C1_Witness ==
    /\ Succeeded /\ c.kind = "ule" /\ fi.coeff > 1
    /\ fi.interval.tag = "proper"
    /\ \E w \in CurrentW : \E x \in Values :
          /\ ~InIntervalVal(fi.interval, mod(fi.coeff * x, two_to_N))
          /\ SideCondsHold(w) /\ holds(c, x, w)
    /\ \E x \in Values : InIntervalVal(fi.interval, mod(fi.coeff * x, two_to_N))

\* C2: on the ULE path with coeff # -1, under every assignment of the other
\* variable that satisfies the side conditions, every value of v whose product
\* coeff*v mod 2^N lies in the interval evaluated under that assignment
\* falsifies the constraint.
C2_ForbiddenValuesFalsify ==
    (Succeeded /\ c.kind = "ule" /\ fi.coeff # 0 - 1) =>
        \A w \in Values : SideCondsHold(w) =>
            \A x \in Values :
                InIntervalAt(fi.interval, mod(fi.coeff * x, two_to_N), w) => ~holds(c, x, w)

C2_Witness ==
    /\ Succeeded /\ c.kind = "ule" /\ fi.coeff = 1
    /\ fi.interval.tag = "proper"
    /\ ~is_val(fi.interval.lo)
    /\ Len(fi.side_cond) > 0
    /\ asg # <<>>
    /\ \E w \in Values :
          /\ w # asg[1] /\ SideCondsHold(w)
          /\ eval_pdd(fi.interval.lo, w) # fi.interval.lo_val
          /\ \E x \in Values : InIntervalAt(fi.interval, x, w) /\ ~holds(c, x, w)

\* C3: on the overflow path, under every assignment of the other variable
\* that satisfies the side conditions, every value of v in the returned
\* interval falsifies the overflow constraint.
C3_OverflowForbiddenFalsify ==
    (Succeeded /\ c.kind = "umul_ovfl") =>
        \A w \in Values : SideCondsHold(w) =>
            \A x \in Values : InIntervalVal(fi.interval, x) => ~holds(c, x, w)

\* C4 (as claimed): after a failed get_interval the interval, side_cond, src
\* and coeff of the record are those of a reset record.
C4_FailureLeavesRecordEmpty ==
    (pc = "done" /\ ~ret) =>
        /\ fi.interval = fi_record.interval
        /\ fi.side_cond = fi_record.side_cond
        /\ fi.src = fi_record.src
        /\ fi.coeff = fi_record.coeff

\* C4 (amended): after a failed get_interval the interval and side_cond are
\* those of a reset record; src and coeff are untouched only for an
\* unsupported constraint kind, and on every failing ULE or overflow path src
\* holds the constraint and coeff is 1.
C4_FailureKeepsIntervalAndSideConds ==
    (pc = "done" /\ ~ret) =>
        /\ fi.interval = fi_record.interval
        /\ fi.side_cond = fi_record.side_cond
        /\ IF c.kind \in {"ule", "umul_ovfl"}
           THEN fi.src = <<c>> /\ fi.coeff = 1
           ELSE fi.src = fi_record.src /\ fi.coeff = fi_record.coeff

C4_Witness ==
    /\ pc = "done" /\ ~ret /\ c.kind = "ule"
    /\ dec[1].ok /\ ~dec[2].ok
    /\ Len(dec[2].side_cond) > 0
    /\ fi.side_cond = <<>> /\ fi.src = <<c>>

\* C5: on the ULE path get_interval returns true iff both decompositions
\* succeed and one coefficient of v is non-zero; the return after
\* match_linear4 is never reached.
C5_UleSucceedsIffDecomposed ==
    (pc = "done" /\ c.kind = "ule") =>
        (ret <=> (dec[1].ok /\ dec[2].ok /\ ~(dec[1].a = 0 /\ dec[2].a = 0)))

C5_Witness ==
    /\ Succeeded /\ c.kind = "ule" /\ last_function = "match_linear3"
    /\ dec[1].ok /\ dec[2].ok /\ dec[1].a = dec[2].a

\* C6: a proper interval returned by a successful get_interval has both
\* values in 0..2^N-1 and lo_val # hi_val.
C6_ProperIntervalWellFormed ==
    (Succeeded /\ fi.interval.tag = "proper") =>
        /\ fi.interval.lo_val \in Values
        /\ fi.interval.hi_val \in Values
        /\ fi.interval.lo_val # fi.interval.hi_val

\* C7: when get_interval succeeds on c and on its negation, the two
\* intervals are complements: proper [lo, hi) against proper [hi, lo), empty
\* against full.
C7_NegationComplements ==
    Succeeded =>
        LET o == get_interval(neg(c), fi_record)
            i1 == fi.interval
            i2 == o.fi.interval
        IN  o.ret =>
                /\ \A y \in Values : InIntervalVal(i1, y) <=> ~InIntervalVal(i2, y)
                /\ fi.coeff = o.fi.coeff
                /\ CASE i1.tag = "proper" ->
                            /\ i2.tag = "proper"
                            /\ i2.lo_val = i1.hi_val /\ i2.hi_val = i1.lo_val
                            /\ i2.lo = i1.hi /\ i2.hi = i1.lo
                     [] i1.tag = "empty" -> i2.tag = "full"
                     [] OTHER            -> i2.tag = "empty"

C7_Witness ==
    /\ Succeeded /\ ~c.positive /\ c.kind = "ule"
    /\ fi.interval.tag = "proper" /\ fi.coeff > 1
    /\ last_function = "match_linear2"
    /\ get_interval(neg(c), fi_record).ret

\* C8: the negation-normalization of to_interval applied twice returns the
\* original coefficient and interval.
C8_NormalizationInvolution ==
    (pc = "norm" /\ tcnt = 2) => tout = tin

C8_Witness ==
    /\ pc = "norm" /\ tcnt = 2 /\ tout = tin
    /\ 2 * tin.coeff > two_to_N /\ tin.coeff # max_value
    /\ tin.lo_val # tin.hi_val /\ tin.lo_val > 1

\* C9: a successful linear_decompose of p returns a and b such that p has
\* degree <= 1 in v and evaluates to a*x + b mod 2^N for every value x of v
\* under the current assignment, b being the value of the remainder e.
C9_DecomposeRoundTrip ==
    (pc = "done" /\ dec # NoDec) =>
        \A i \in 1..2 :
            LET p == IF i = 1 THEN c.lhs ELSE c.rhs
            IN  dec[i].ok =>
                    /\ degree(p) <= 1
                    /\ is_val(dec[i].b)
                    /\ \A w \in CurrentW :
                          /\ eval_pdd(dec[i].e, w) = val(dec[i].b)
                          /\ \A x \in Values :
                                eval_poly(p, x, w) = mod(dec[i].a * x + val(dec[i].b), two_to_N)

C9_Witness ==
    /\ pc = "done" /\ dec # NoDec
    /\ dec[1].ok /\ ~is_val(c.lhs.k1) /\ ~is_val(c.lhs.k0)
    /\ dec[1].a > 1 /\ val(dec[1].b) > 0
    /\ Len(dec[1].side_cond) = 1

\* C10: for the positive constraint v <= k with a constant k # 2^N - 1,
\* get_interval succeeds with coeff 1, no side conditions and the interval
\* [k+1, 0), so the allowed values of v are exactly 0..k.
C10_VLeConstant ==
    (pc = "done" /\ IsVLeK) =>
        LET k == val(c.rhs.k0)
        IN  /\ ret
            /\ fi.coeff = 1
            /\ fi.side_cond = <<>>
            /\ fi.interval = proper(mk_val(k + 1), k + 1, zero, 0)
            /\ \A x \in Values : ~InIntervalVal(fi.interval, x) <=> x \in 0..k

C10_Witness ==
    /\ pc = "done" /\ IsVLeK /\ ret
    /\ val(c.rhs.k0) > 1 /\ two_to_N > 4
    /\ fi.interval.lo_val = val(c.rhs.k0) + 1

\* the polynomial v
BareV == [k0 |-> zero, k1 |-> mk_val(1), k2 |-> zero]

\* p has degree 0 in v and its value is known under the current assignment
IsEvaluated(p) == p.k1 = zero /\ p.k2 = zero /\ is_val(subst(p.k0))

\* the operand e2 of umul_ovfl(v, e2) or umul_ovfl(e2, v)
OtherOperand == IF c.lhs = BareV THEN c.rhs.k0 ELSE c.lhs.k0

\* the constraint is umul_ovfl(v, e2) in either order, e2 free of v and evaluated
IsOvflBare ==
    /\ c.kind = "umul_ovfl"
    /\ \/ c.lhs = BareV /\ IsEvaluated(c.rhs)
       \/ c.rhs = BareV /\ IsEvaluated(c.lhs)

\* C11: for a positive umul_ovfl(v, e2) in either order with e2 evaluating to
\* b2: b2 <= 1 gives the full interval with the side condition e2 <= 1;
\* otherwise with A = (2^N-1) div b2 and B = (2^N-1+A) div A - 1 the call
\* fails when A >= 4 and B >= 4 and else returns [0, A+1) with the single
\* side condition e2 <= B.
C11_PositiveOverflowBounds ==
    (pc = "done" /\ IsOvflBare /\ c.positive) =>
        LET e2 == OtherOperand
            b2 == val(subst(e2))
            A  == max_value \div b2
            B  == ((max_value + A) \div A) - 1
        IN  IF b2 <= 1 THEN
                ret /\ fi.interval = full /\ fi.side_cond = <<ule(e2, mk_val(1))>>
            ELSE IF A >= 4 /\ B >= 4 THEN ~ret
            ELSE /\ ret
                 /\ fi.interval = proper(mk_val(0), 0, mk_val(A + 1), A + 1)
                 /\ fi.side_cond = <<ule(e2, mk_val(B))>>
                 /\ fi.coeff = 1

C11_Witness ==
    /\ pc = "done" /\ IsOvflBare /\ c.positive /\ ret
    /\ c.rhs = BareV /\ ~is_val(OtherOperand)
    /\ fi.interval.tag = "proper" /\ fi.interval.hi_val = 4
    /\ fi.side_cond = <<ule(OtherOperand, mk_val(2))>>

\* the record holds the unit interval that leaves n as the only allowed value
\* (positive constraint) or as the only forbidden value (negated constraint)
UnitIntervalAt(n) ==
    /\ ret /\ fi.coeff = 1 /\ fi.interval.tag = "proper"
    /\ IF c.positive
       THEN /\ fi.interval.lo_val = mod(n + 1, two_to_N) /\ fi.interval.hi_val = n
            /\ {x \in Values : ~InIntervalVal(fi.interval, x)} = {n}
       ELSE /\ fi.interval.lo_val = n /\ fi.interval.hi_val = mod(n + 1, two_to_N)
            /\ {x \in Values : InIntervalVal(fi.interval, x)} = {n}
    /\ \A w \in CurrentW : \A x \in Values :
           holds(c, x, w) <=> (c.positive <=> x = n)

\* the decomposed constraint has the shape a*v + b <= 0 with odd a
IsZeroShape ==
    /\ c.kind = "ule" /\ dec[1].ok /\ dec[2].ok
    /\ dec[1].a % 2 = 1 /\ dec[2].a = 0 /\ is_zero(dec[2].b)

\* the decomposed constraint has the shape -1 <= a*v + b with odd a
IsMaxShape ==
    /\ c.kind = "ule" /\ dec[1].ok /\ dec[2].ok
    /\ dec[1].a = 0 /\ is_max(dec[1].b) /\ dec[2].a % 2 = 1

\* C12: for odd a, a*v + b <= 0 against a side that evaluates to 0 yields, with
\* n = -b * a^-1 mod 2^N, the interval [n+1, n) when positive (v = n is the
\* only allowed value) and [n, n+1) when negated; -1 <= a*v + b does the same
\* with n = (-1 - b) * a^-1 mod 2^N; coeff = 1 in both patterns.
C12_UnitIntervalAtRoot ==
    pc = "done" =>
        /\ IsZeroShape =>
              UnitIntervalAt(mod((0 - val(dec[1].b)) * mult_inverse(dec[1].a), two_to_N))
        /\ IsMaxShape =>
              UnitIntervalAt(mod((0 - 1 - val(dec[2].b)) * mult_inverse(dec[2].a), two_to_N))

C12_Witness ==
    /\ pc = "done" /\ IsZeroShape /\ c.positive /\ N = WideN
    /\ dec[1].a = 3 /\ val(dec[1].b) = 7
    /\ fi.interval.hi_val = mod((0 - 7) * 11, two_to_N)
    /\ last_function = "match_zero"

\* match_zero has matched
MatchedZero == Succeeded /\ c.kind = "ule" /\ last_function = "match_zero"

\* the values of v the returned interval forbids
Forbidden == {x \in Values : InIntervalVal(fi.interval, x)}

\* the anchor -b * a^-1 mod 2^N of match_zero
ZeroAnchor == mod((0 - val(dec[1].b)) * mult_inverse(dec[1].a), two_to_N)

\* C13 (as claimed): whenever match_zero matches, the returned interval
\* contains exactly one value, the anchor -b * a^-1 mod 2^N.
C13_ZeroIntervalIsUnit ==
    MatchedZero => Forbidden = {ZeroAnchor}

\* C13 (amended): whenever match_zero matches, the returned interval is the
\* unit range {n} at the anchor n = -b * a^-1 mod 2^N for a negated constraint
\* and its complement, all 2^N - 1 values other than n, for a positive one.
C13_ZeroIntervalIsUnitOrComplement ==
    MatchedZero =>
        /\ ~c.positive => Forbidden = {ZeroAnchor} /\ fi.interval.lo_val = ZeroAnchor
        /\ c.positive =>
              /\ Forbidden = Values \ {ZeroAnchor}
              /\ Cardinality(Forbidden) = two_to_N - 1
              /\ fi.interval.hi_val = ZeroAnchor

C13_Witness ==
    /\ MatchedZero /\ c.positive /\ N = MaxN
    /\ ~is_val(dec[1].e) /\ ZeroAnchor > 0
    /\ Cardinality(Forbidden) = two_to_N - 1

\* both sides of a ULE constraint decompose with distinct non-zero coefficients
IsLinear4Shape ==
    /\ c.kind = "ule" /\ dec[1].ok /\ dec[2].ok
    /\ dec[1].a # dec[2].a /\ dec[1].a # 0 /\ dec[2].a # 0

\* C14: the record has coeff = -1 iff both sides of a ULE constraint decompose
\* with distinct non-zero coefficients; the call then succeeds with a proper
\* interval carrying (lo, lo_val) = (b1, a1) and (hi, hi_val) = (b2, a2) for a
\* positive constraint, the pairs swapped for a negated one, unnormalized; no
\* other path leaves a negative coeff.
C14_SentinelCoeff ==
    pc = "done" =>
        /\ (fi.coeff < 0) <=> IsLinear4Shape
        /\ (fi.coeff < 0) =>
              /\ ret /\ fi.coeff = 0 - 1
              /\ fi.interval =
                     IF c.positive
                     THEN proper(dec[1].b, dec[1].a, dec[2].b, dec[2].a)
                     ELSE proper(dec[2].b, dec[2].a, dec[1].b, dec[1].a)

C14_Witness ==
    /\ Succeeded /\ fi.coeff = 0 - 1 /\ ~c.positive /\ IsLinear4Shape
    /\ 2 * dec[1].a > two_to_N /\ dec[2].a > 1
    /\ dec[1].b # dec[2].b /\ ~is_val(dec[1].e)
    /\ fi.interval.hi_val = dec[1].a /\ fi.interval.hi = dec[1].b

\* saturation::propagate(v, id) has returned
Propagated == pc = "sat" /\ calls > 0

\* the inequality of the last saturation::propagate(v, id)
LastInequality == from_ule(sat_id)

\* the answers of the core to the equality-inference rule in the last call
EqualityReports == {k \in 1..Len(reported) : reported[k].request = "propagate"}

\* C15: saturation::propagate(v, id) returns true iff during that call the
\* core reported a propagation or a clause addition as new, the propagation of
\* the equality-inference rule included.
C15_ReturnsWhetherNew ==
    Propagated => (sat_ret <=> \E k \in 1..Len(reported) : reported[k].new)

\* the ids of the positive constraints q <= p of the unsat core, p <= q being
\* the inequality of the last call
Mirrors ==
    {j \in 1..Len(unsat_core) :
        /\ unsat_core[j].kind = "ule" /\ unsat_core[j].positive
        /\ unsat_core[j].lhs = unsat_core[sat_id].rhs
        /\ unsat_core[j].rhs = unsat_core[sat_id].lhs}

\* the last call was made on a ULE constraint of the bit-width of v that does
\* not evaluate to true
ReachedRules ==
    /\ Propagated /\ unsat_core[sat_id].kind = "ule"
    /\ ~eval_true(unsat_core[sat_id]) /\ unsat_core[sat_id].bits = N

\* the last call was made on a non-strict p <= q that mentions v
InferenceApplies ==
    /\ unsat_core[sat_id].positive
    /\ degree(unsat_core[sat_id].lhs) > 0 \/ degree(unsat_core[sat_id].rhs) > 0

\* C16: for a non-strict p <= q of the bit-width of v that does not evaluate to
\* true and mentions v, the equality-inference rule propagates p - q = 0 with
\* premises {id of the mirror, id of the inequality} when the unsat core holds
\* the positive q <= p; it propagates nothing when the inequality is strict,
\* free of v, or without a positive mirror.
C16_EqualityInference ==
    ReachedRules =>
        IF InferenceApplies /\ Mirrors # {}
        THEN /\ Cardinality(EqualityReports) = 1
             /\ \A k \in EqualityReports :
                   /\ reported[k].what.lit =
                          eq_v(poly_sub(unsat_core[sat_id].lhs, unsat_core[sat_id].rhs), N)
                   /\ \E j \in Mirrors : reported[k].what.premises = {j, sat_id}
                   /\ reported[k].what \in propagated
        ELSE EqualityReports = {}

C16_Witness ==
    /\ ReachedRules /\ InferenceApplies /\ Mirrors = {1} /\ sat_id = 2
    /\ Cardinality(EqualityReports) = 1
    /\ \A k \in EqualityReports : reported[k].what.premises = {1, 2} /\ reported[k].new
    /\ ~is_val(unsat_core[2].lhs.k0) /\ degree(unsat_core[2].rhs) = 1

\* the clause cl, its premise first, holds for every value of v and w
ClauseValid(cl) ==
    \A x \in Values : \A w \in Values :
        holds(cl[1], x, w) => \E k \in 2..Len(cl) : holds(cl[k], x, w)

\* the clause cl has the strict form exactly when its premise is strict
ClauseFormMatches(cl) ==
    IF cl[1].positive
    THEN /\ Len(cl) = 4 /\ cl[2].kind = "umul_ovfl" /\ cl[2].positive
         /\ cl[3] = eq_v(var_v, N)
         /\ cl[4].kind = "ule" /\ cl[4].positive
         /\ cl[4].lhs = cl[2].rhs
    ELSE /\ Len(cl) = 3 /\ cl[2].kind = "umul_ovfl" /\ cl[2].positive
         /\ cl[3].kind = "ule" /\ ~cl[3].positive
         /\ cl[3].rhs = cl[2].rhs

\* C17: every clause added by try_ugt_x is valid modulo 2^N: y*x < z*x implies
\* x*y >= 2^N or y < z, and y*x <= z*x implies x*y >= 2^N or y <= z or x = 0;
\* the strict form is emitted exactly when the matched inequality is strict.
C17_UgtXClausesValid ==
    (pc = "sat" /\ clauses # {}) =>
        /\ \A cl \in clauses : ClauseValid(cl) /\ ClauseFormMatches(cl)
        /\ \A x \in Values : \A y \in Values : \A z \in Values :
              /\ mod(y * x, two_to_N) < mod(z * x, two_to_N) => (x * y >= two_to_N \/ y < z)
              /\ mod(y * x, two_to_N) <= mod(z * x, two_to_N) =>
                    (x * y >= two_to_N \/ y <= z \/ x = 0)

C17_Witness ==
    /\ pc = "sat" /\ N = SatMaxN /\ Cardinality(clauses) = 2
    /\ \E cl \in clauses :
          /\ cl[1].positive /\ Len(cl) = 4 /\ ~is_val(cl[2].rhs.k0)
          /\ \E x \in Values : \E w \in Values :
                /\ holds(cl[1], x, w) /\ holds(cl[3], x, w)
                /\ ~holds(cl[2], x, w) /\ ~holds(cl[4], x, w)
    /\ \E cl \in clauses : ~cl[1].positive /\ Len(cl) = 3

\* C18: every side condition a successful get_interval leaves in the record
\* evaluates to true under the assignment in force at the call.
C18_SideCondsHoldAtMatch ==
    Succeeded => \A w \in CurrentW : SideCondsHold(w)

C18_Witness ==
    /\ Succeeded /\ asg # <<>> /\ Len(fi.side_cond) >= 3
    /\ SideCondsHold(asg[1])
    /\ \E i \in 1..Len(fi.side_cond) : ~fi.side_cond[i].positive
    /\ \E w \in Values : ~SideCondsHold(w)

\* the number of side conditions the matching pattern appended after the two
\* decompositions
AppendedByPattern == Len(fi.side_cond) - Len(dec[2].side_cond)

\* C19 (as claimed): on the ULE path the matching pattern appends at most 2
\* side conditions, those of the decompositions not counted.
C19_PatternAppendsAtMostTwo ==
    (Succeeded /\ c.kind = "ule") => AppendedByPattern \in 0..2

\* C19 (amended): on the ULE path the matching pattern appends at most 3 side
\* conditions, those of the decompositions not counted: match_zero and
\* match_max at most 1, match_linear4 at most 2, match_linear1..3 at most 1
\* when the resulting coeff is 1 and at most 3 otherwise.
C19_PatternAppendsAtMostThree ==
    (Succeeded /\ c.kind = "ule") =>
        /\ AppendedByPattern \in 0..3
        /\ last_function \in {"match_zero", "match_max"} => AppendedByPattern <= 1
        /\ last_function = "match_linear4" => AppendedByPattern <= 2
        /\ fi.coeff = 1 => AppendedByPattern <= 1

C19_Witness ==
    /\ Succeeded /\ c.kind = "ule" /\ last_function = "match_linear1"
    /\ AppendedByPattern = 3 /\ fi.coeff > 1
    /\ fi.interval.tag = "proper"

\* C20: after any sequence of get_interval calls, each followed by
\* fi_record::reset(), a call returns the same boolean and the same record
\* (interval, side_cond, src, coeff, bit_width) as the same call on a freshly
\* constructed record.
C20_IndependentOfHistory ==
    pc = "done" =>
        /\ ret = get_interval(c, fi_record).ret
        /\ fi = get_interval(c, fi_record).fi

C20_Witness ==
    /\ pc = "done" /\ ret /\ c.kind = "umul_ovfl"
    /\ last_function = "match_linear3"
    /\ Len(fi.side_cond) > 0 /\ fi.src = <<c>>
    /\ fi = get_interval(c, fi_record).fi

\* the record the patterns are handed: coeff 1, src <<c>> and the side
\* conditions of the two decompositions
EntryRecord ==
    [fi_record EXCEPT !.coeff = 1, !.src = <<c>>, !.side_cond = dec[2].side_cond,
                      !.bit_width = N]

\* the six patterns in the order of get_interval_ule, each applied to the
\* decomposed constraint
PatternResults ==
    LET a1 == dec[1].a  b1 == dec[1].b  e1 == dec[1].e
        a2 == dec[2].a  b2 == dec[2].b  e2 == dec[2].e
    IN  << [name |-> "match_zero", res |-> match_zero(c, a1, b1, e1, a2, b2, e2, EntryRecord)],
           [name |-> "match_max", res |-> match_max(c, a1, b1, e1, a2, b2, e2, EntryRecord)],
           [name |-> "match_linear1",
            res |-> match_linear1(c, a1, b1, e1, a2, b2, e2, EntryRecord)],
           [name |-> "match_linear2",
            res |-> match_linear2(c, a1, b1, e1, a2, b2, e2, EntryRecord)],
           [name |-> "match_linear3",
            res |-> match_linear3(c, a1, b1, e1, a2, b2, e2, EntryRecord)],
           [name |-> "match_linear4",
            res |-> match_linear4(c, a1, b1, e1, a2, b2, e2, EntryRecord)] >>

\* the positions of the patterns whose condition holds
Matching == {k \in 1..6 : PatternResults[k].res.matched}

\* both sides of the ULE constraint decomposed and one coefficient is non-zero
PatternsTried ==
    /\ pc = "done" /\ c.kind = "ule"
    /\ dec[1].ok /\ dec[2].ok /\ ~(dec[1].a = 0 /\ dec[2].a = 0)

\* C21: on the ULE path the record is the one of the first pattern, in the
\* order match_zero, match_max, match_linear1..4, whose condition holds:
\* a1 odd, a2 = 0, b2 = 0 is answered by match_zero with coeff 1 and not by
\* match_linear1; a1 = 0, b1 = 2^N - 1, a2 odd by match_max and not by
\* match_linear2.
C21_FirstPatternWins ==
    PatternsTried =>
        \A pr \in {PatternResults} :
            \A matching \in {{k \in 1..6 : pr[k].res.matched}} :
                /\ matching # {}
                /\ \A k \in matching :
                      (\A j \in matching : k <= j) =>
                          /\ ret
                          /\ fi = pr[k].res.fi
                          /\ last_function = pr[k].name
                /\ IsZeroShape =>
                      /\ 3 \in matching
                      /\ last_function = "match_zero" /\ fi.coeff = 1
                      /\ fi.interval.tag = "proper"
                /\ IsMaxShape =>
                      /\ 4 \in matching
                      /\ last_function = "match_max" /\ fi.coeff = 1
                      /\ fi.interval.tag = "proper"

C21_Witness ==
    /\ PatternsTried /\ IsZeroShape /\ ret
    /\ dec[1].a = 3 /\ {1, 3} \subseteq Matching
    /\ PatternResults[3].res.fi.coeff = 3
    /\ fi = PatternResults[1].res.fi /\ fi # PatternResults[3].res.fi
    /\ last_function = "match_zero"

\* match_linear1, match_linear2 or match_linear3 has matched
MatchedLinear123 ==
    /\ Succeeded /\ c.kind = "ule"
    /\ last_function \in {"match_linear1", "match_linear2", "match_linear3"}

\* the expression whose vanishing is the condition for empty/full of the
\* matching pattern: e2 + 1, e1, e1 - e2
BoundaryExpr ==
    CASE last_function = "match_linear1" -> pdd_add(dec[2].e, mk_val(1))
      [] last_function = "match_linear2" -> dec[1].e
      [] OTHER                           -> pdd_sub(dec[1].e, dec[2].e)

\* the condition holds under the assignment: b2 = 2^N - 1, b1 = 0, b1 = b2
BoundaryHolds ==
    CASE last_function = "match_linear1" -> val(dec[2].b) = max_value
      [] last_function = "match_linear2" -> val(dec[1].b) = 0
      [] OTHER                           -> val(dec[1].b) = val(dec[2].b)

\* the coefficient of v the matching pattern hands to to_interval
RawCoeff == IF last_function = "match_linear2" THEN dec[2].a ELSE dec[1].a

\* the side conditions appended after the two decompositions
PushedByPattern == SubSeq(fi.side_cond, Len(dec[2].side_cond) + 1, Len(fi.side_cond))

\* the side conditions of add_non_unit_side_conds
NonUnitSideConds ==
    IF fi.coeff = 1 THEN <<>>
    ELSE (IF dec[1].b # dec[1].e THEN <<eq2(dec[1].b, dec[1].e)>> ELSE <<>>)
         \o (IF dec[2].b # dec[2].e THEN <<eq2(dec[2].b, dec[2].e)>> ELSE <<>>)

\* C22: in match_linear1..3, when the boundary condition holds under the
\* assignment the interval is empty for a positive and full for a negated
\* constraint and coeff stays the raw coefficient; push_eq appends the boundary
\* equality (its negation when the condition does not hold) as the first side
\* condition of the pattern iff the boundary expression is not a constant.
C22_TrivialBoundary ==
    MatchedLinear123 =>
        /\ BoundaryHolds =>
              /\ fi.interval = (IF c.positive THEN empty ELSE full)
              /\ fi.coeff = RawCoeff
        /\ ~BoundaryHolds => fi.interval.tag = "proper"
        /\ PushedByPattern =
              (IF is_val(BoundaryExpr) THEN <<>>
               ELSE IF BoundaryHolds THEN <<eq(BoundaryExpr)>>
               ELSE <<neg(eq(BoundaryExpr))>>)
              \o NonUnitSideConds

C22_Witness ==
    /\ MatchedLinear123 /\ last_function = "match_linear2" /\ c.positive
    /\ BoundaryHolds /\ ~is_val(BoundaryExpr)
    /\ fi.interval = empty
    /\ 2 * fi.coeff > two_to_N /\ fi.coeff = dec[2].a
    /\ PushedByPattern[1] = eq(dec[1].e)

\* the coefficient and the endpoints [lo, hi[ the matching pattern hands to
\* to_interval
RawTriple ==
    LET b1 == dec[1].b  e1 == dec[1].e
        b2 == dec[2].b  e2 == dec[2].e
    IN  CASE last_function = "match_linear1" ->
                [coeff |-> RawCoeff,
                 lo |-> pdd_add(pdd_sub(e2, e1), mk_val(1)),
                 lo_val |-> val(pdd_add(pdd_sub(b2, b1), mk_val(1))),
                 hi |-> pdd_neg(e1), hi_val |-> val(pdd_neg(b1))]
          [] last_function = "match_linear2" ->
                [coeff |-> RawCoeff,
                 lo |-> pdd_neg(e2), lo_val |-> val(pdd_neg(b2)),
                 hi |-> pdd_sub(e1, e2), hi_val |-> val(pdd_sub(b1, b2))]
          [] OTHER ->
                [coeff |-> RawCoeff,
                 lo |-> pdd_neg(e2), lo_val |-> val(pdd_neg(b2)),
                 hi |-> pdd_neg(e1), hi_val |-> val(pdd_neg(b1))]

\* the proper interval to_interval makes of the triple t for the sign of c
TaggedInterval(t) ==
    IF c.positive THEN proper(t.lo, t.lo_val, t.hi, t.hi_val)
    ELSE proper(t.hi, t.hi_val, t.lo, t.lo_val)

\* match_linear1..3 matched and the interval is not trivial
MatchedProper == MatchedLinear123 /\ ~BoundaryHolds

\* C23: for a non-trivial interval with coeff > 2^(N-1), to_interval replaces
\* coeff by 2^N - coeff and [lo, hi) by [1 - hi, 1 - lo) mod 2^N, which forbids
\* the same values of v; with coeff <= 2^(N-1) coefficient and endpoints are
\* unchanged; so a proper interval of match_linear1..3 has coeff in 1..2^(N-1).
C23_NormalizationPreservesSet ==
    MatchedProper =>
        LET t == RawTriple
            lo1 == mod(1 - t.hi_val, two_to_N)
            hi1 == mod(1 - t.lo_val, two_to_N)
        IN  /\ fi.coeff \in 1..(two_to_N \div 2)
            /\ IF 2 * t.coeff > two_to_N
               THEN /\ fi.coeff = two_to_N - t.coeff
                    /\ fi.interval =
                           TaggedInterval([lo |-> pdd_sub(mk_val(1), t.hi), lo_val |-> lo1,
                                           hi |-> pdd_sub(mk_val(1), t.lo), hi_val |-> hi1])
                    /\ \A x \in Values :
                           in_range(mod(t.coeff * x, two_to_N), t.lo_val, t.hi_val)
                               <=> in_range(mod((two_to_N - t.coeff) * x, two_to_N), lo1, hi1)
               ELSE /\ fi.coeff = t.coeff
                    /\ fi.interval = TaggedInterval(t)

C23_Witness ==
    /\ MatchedProper /\ last_function = "match_linear1"
    /\ 2 * RawCoeff > two_to_N /\ RawCoeff # max_value
    /\ fi.coeff = two_to_N - RawCoeff
    /\ ~is_val(fi.interval.lo) /\ fi.interval.lo_val # fi.interval.hi_val
    /\ \E x \in Values : in_range(mod(RawCoeff * x, two_to_N), RawTriple.lo_val, RawTriple.hi_val)
    /\ \E x \in Values : ~in_range(mod(RawCoeff * x, two_to_N), RawTriple.lo_val, RawTriple.hi_val)

\* the polynomial the i-th decomposition of the last call was made on
Decomposed(i) == IF i = 1 THEN c.lhs ELSE c.rhs

\* the side conditions in the list when the i-th decomposition was entered
SideCondsBefore(i) == IF i = 1 THEN <<>> ELSE dec[1].side_cond

\* C24: linear_decompose fails exactly when p has degree > 1 in v, or degree 1
\* with a non-constant coefficient that does not evaluate, or a remainder that
\* does not evaluate; for degree 0 it returns coefficient 0 and remainder p; it
\* appends the one side condition coefficient = value iff the degree is 1 and
\* the coefficient is non-constant and evaluates, and none otherwise.
C24_DecomposeFailureCases ==
    (pc = "done" /\ dec # NoDec) =>
        \A i \in 1..2 :
            LET p == Decomposed(i)
                q == p.k1
                coeff_evaluates == is_val(subst(q))
            IN  /\ dec[i].ok <=>
                       /\ degree(p) <= 1
                       /\ degree(p) = 1 => (is_val(q) \/ coeff_evaluates)
                       /\ is_val(subst(p.k0))
                /\ degree(p) = 0 => dec[i].a = 0 /\ dec[i].e = p.k0
                /\ dec[i].side_cond =
                       SideCondsBefore(i) \o
                       (IF degree(p) = 1 /\ ~is_val(q) /\ coeff_evaluates
                        THEN <<eq2(q, subst(q))>> ELSE <<>>)

C24_Witness ==
    /\ pc = "done" /\ dec # NoDec
    /\ degree(c.lhs) = 1 /\ ~is_val(c.lhs.k1) /\ ~is_val(c.lhs.k0)
    /\ dec[1].ok /\ dec[1].side_cond = <<eq2(c.lhs.k1, subst(c.lhs.k1))>>
    /\ degree(c.rhs) = 0 /\ ~is_val(c.rhs.k0)
    /\ dec[2].ok /\ dec[2].a = 0 /\ dec[2].e = c.rhs.k0
    /\ dec[2].side_cond = dec[1].side_cond

\* both sides of a ULE constraint decomposed with coefficient 0
UleBothZero ==
    /\ c.kind = "ule" /\ dec[1].ok /\ dec[2].ok
    /\ dec[1].a = 0 /\ dec[2].a = 0

\* the decompositions of an overflow constraint that passes the checks on the
\* coefficients and on the offset: the i-th is the bare variable, the other is
\* free of v
OvflBareAt(i) ==
    /\ c.kind = "umul_ovfl" /\ dec[1].ok /\ dec[2].ok
    /\ dec[i].a = 1 /\ is_zero(dec[i].b) /\ dec[3 - i].a = 0
    /\ i = 2 => dec[1].a = 0

\* the value b2 of the other operand when the i-th is the bare variable
OvflB2(i) == val(dec[3 - i].b)

\* the escape condition A >= 4 and B >= 4 of the overflow path for the value b2
OvflEscapes(b2) ==
    LET A == IF c.positive THEN max_value \div b2 ELSE (max_value \div b2) + 1
        B == IF c.positive THEN ((max_value + A) \div A) - 1 ELSE (max_value + A) \div A
    IN  A >= 4 /\ B >= 4

\* C25: on every return of false from get_interval_ule and
\* get_interval_umul_ovfl the side-condition list has its length at entry; the
\* paths that fail after the guard was released (both coefficients zero,
\* overflow escape, negated overflow with b2 <= 1) do fail and are truncated
\* like the others.
C25_FailureTruncatesSideConds ==
    (pc = "done" /\ c.kind \in {"ule", "umul_ovfl"}) =>
        /\ ~ret => Len(fi.side_cond) = Len(fi_record.side_cond)
        /\ UleBothZero => ~ret /\ Len(fi.side_cond) = Len(fi_record.side_cond)
        /\ \A i \in 1..2 :
              (OvflBareAt(i) /\ ((~c.positive /\ OvflB2(i) <= 1)
                                 \/ (OvflB2(i) > 1 /\ OvflEscapes(OvflB2(i))))) =>
                  ~ret /\ Len(fi.side_cond) = Len(fi_record.side_cond)

C25_Witness ==
    /\ pc = "done" /\ ~ret /\ N = WideN
    /\ OvflBareAt(2) /\ OvflB2(2) > 1 /\ OvflEscapes(OvflB2(2))
    /\ Len(dec[2].side_cond) = 1
    /\ fi.side_cond = <<>>

ZeroOne == proper(mk_val(0), 0, mk_val(2), 2)

\* the i-th operand decomposed to exactly the bare variable
BareAt(i) == dec[i].ok /\ dec[i].a = 1 /\ is_zero(dec[i].b)

\* C27: the overflow path succeeds only if one operand decomposes to the bare
\* variable (coefficient 1, offset evaluating to 0); when the other operand
\* does not decompose it succeeds only for a positive constraint, with the
\* interval [0, 2) and the side conditions appended so far, and fails for a
\* negated one; when both decompose the other coefficient must be 0.
C27_OverflowNeedsBareVariable ==
    (pc = "done" /\ c.kind = "umul_ovfl") =>
        /\ ret => \E i \in 1..2 : BareAt(i)
        /\ \A i \in 1..2 :
              (dec[i].ok /\ ~dec[3 - i].ok) =>
                  IF c.positive /\ BareAt(i)
                  THEN /\ ret /\ fi.interval = ZeroOne /\ fi.coeff = 1
                       /\ fi.side_cond = dec[2].side_cond
                  ELSE ~ret
        /\ (~dec[1].ok /\ ~dec[2].ok) => ~ret
        /\ (dec[1].ok /\ dec[2].ok /\ ret) =>
              \E i \in 1..2 : BareAt(i) /\ dec[3 - i].a = 0

C27_Witness ==
    /\ pc = "done" /\ c.kind = "umul_ovfl" /\ c.positive /\ ret
    /\ ~dec[1].ok /\ degree(c.lhs) = 2
    /\ BareAt(2) /\ ~is_val(c.rhs.k1)
    /\ fi.interval = ZeroOne
    /\ Len(fi.side_cond) = 1 /\ fi.side_cond = dec[2].side_cond

\* the assertions on the bounds of the overflow path are reached: one operand
\* is the bare variable, the other evaluates to b2 >= 2
OvflBoundsAt(i) == OvflBareAt(i) /\ OvflB2(i) >= 2

\* C28: whenever the assertions of get_interval_umul_ovfl are reached they
\* hold, for every b2 in 2..2^N-1: in the positive branch b2 <= B,
\* A*B <= 2^N-1, (A+1)*B > 2^N-1, A*(B+1) > 2^N-1; in the negated branch
\* A*B > 2^N-1, A*(B-1) <= 2^N-1, (A-1)*B <= 2^N-1, b2 >= B; A is never 0.
C28_OverflowAssertionsHold ==
    pc = "done" =>
        /\ asserted
        /\ \A i \in 1..2 : OvflBoundsAt(i) =>
              LET b2 == OvflB2(i)
              IN  /\ max_value \div b2 >= 1
                  /\ (ret /\ c.positive) =>
                        LET A == fi.interval.hi_val - 1
                            B == val(fi.side_cond[Len(fi.side_cond)].rhs)
                        IN  /\ A = max_value \div b2
                            /\ b2 <= B
                            /\ A * B <= max_value
                            /\ (A + 1) * B > max_value
                            /\ A * (B + 1) > max_value
                  /\ (ret /\ ~c.positive) =>
                        LET A == fi.interval.lo_val
                            B == (max_value + A) \div A
                        IN  /\ A = (max_value \div b2) + 1
                            /\ A * B > max_value
                            /\ A * (B - 1) <= max_value
                            /\ (A - 1) * B <= max_value
                            /\ b2 >= B

C28_Witness ==
    /\ pc = "done" /\ asserted /\ ret /\ ~c.positive
    /\ N = OvflMaxN /\ OvflBoundsAt(1) /\ OvflB2(1) > 8
    /\ fi.interval.lo_val = 3
    /\ 3 * ((max_value + 3) \div 3) > max_value

\* the clause cl with two premises holds for every value of v and w
ClauseValid2(cl) ==
    \A x \in Values : \A w \in Values :
        (holds_term(cl[1], x, w) /\ holds_term(cl[2], x, w)) =>
            (holds_term(cl[3], x, w) \/ holds_term(cl[4], x, w))

\* the two sides of the inequality p ~ q the signed constraint sc stands for
IneqLhs(sc) == IF sc.positive THEN sc.lhs ELSE sc.rhs

IneqRhs(sc) == IF sc.positive THEN sc.rhs ELSE sc.lhs

\* the clause cl was added by try_ugt_y: its overflow literal is on (x, v)
IsUgtYClause(cl) == cl[3].rhs = var_v

\* the conclusion the rule table gives for the premises of cl: z'*x ~ z*x for
\* try_ugt_y, y*x ~ y'*x for try_ugt_z, strict iff the product premise is
RuleConclusion(cl) ==
    IF IsUgtYClause(cl)
    THEN ineq(~cl[1].positive, mul(IneqLhs(cl[2]), cl[3].lhs),
              mul(IneqRhs(cl[1]).mul[2], cl[3].lhs), N)
    ELSE ineq(~cl[1].positive, mul(IneqLhs(cl[1]).mul[1], cl[3].lhs),
              mul(IneqRhs(cl[2]), cl[3].lhs), N)

\* C29: every clause added by try_ugt_y and try_ugt_z is valid modulo 2^N and
\* follows the rule table: try_ugt_y concludes ovfl(x,y) or z'*x ~ z*x with z'
\* the left-hand side of the bound on y, try_ugt_z concludes ovfl(x,y') or
\* y*x ~ y'*x, the conclusion being strict only when the product premise is.
C29_UgtYZClausesValid ==
    pc = "ugt" =>
        \A cl \in clauses :
            /\ ClauseValid2(cl)
            /\ cl[3].kind = "umul_ovfl" /\ cl[3].positive
            /\ cl[4] = RuleConclusion(cl)

\* the requests of the given kind the core received in the call that produced
\* the report list r
Requests(r, kind) == {k \in 1..Len(r) : r[k].request = kind}

\* the equality-inference rule matches the constraint id of the core
EqualityMatches(id) ==
    /\ unsat_core[id].positive
    /\ degree(unsat_core[id].lhs) > 0 \/ degree(unsat_core[id].rhs) > 0
    /\ \E j \in 1..Len(unsat_core) :
          /\ unsat_core[j].kind = "ule" /\ unsat_core[j].positive
          /\ unsat_core[j].lhs = unsat_core[id].rhs
          /\ unsat_core[j].rhs = unsat_core[id].lhs

\* saturation::propagate(v, id) returns before any rule is attempted
Skipped(id) ==
    \/ eval_true(unsat_core[id])
    \/ unsat_core[id].kind # "ule"
    \/ unsat_core[id].bits # N

\* C30: saturation::propagate(v, id) returns false and asks nothing of the core
\* when the constraint evaluates to true, is not a ULE constraint or has
\* another bit-width than v; otherwise a rule that does not match adds nothing,
\* and each of the two rules is attempted whether or not the other matched.
C30_NoMatchNoEffect ==
    [][(pc = "sat" /\ calls' = calls + 1) =>
          IF Skipped(sat_id')
          THEN /\ ~sat_ret' /\ reported' = <<>>
               /\ propagated' = propagated /\ clauses' = clauses
          ELSE /\ ~EqualityMatches(sat_id') =>
                     propagated' = propagated /\ Requests(reported', "propagate") = {}
               /\ ~is_xY_l_xZ(from_ule(sat_id')) =>
                     clauses' = clauses /\ Requests(reported', "add_clause") = {}
               /\ EqualityMatches(sat_id') =>
                     Cardinality(Requests(reported', "propagate")) = 1
               /\ is_xY_l_xZ(from_ule(sat_id')) =>
                     Cardinality(Requests(reported', "add_clause")) = 1
      ]_vars

C30_Witness ==
    /\ Propagated /\ ~Skipped(sat_id)
    /\ EqualityMatches(sat_id) /\ is_xY_l_xZ(from_ule(sat_id))
    /\ Len(reported) = 2
    /\ reported[1].request = "propagate" /\ reported[2].request = "add_clause"
    /\ reported[1].new /\ reported[2].new
    /\ sat_ret

====
